---- MODULE Spec2Model ----
(***************************************************************************)
(* Model of the opx-build package assembler:                               *)
(*   scripts/opx_get_packages.py  OpxPackages.fetch / _fetch_package       *)
(*   scripts/opx_rel_pkgasm.py    OpxRelPackageRestriction, OpxRelPackage  *)
(* The apt cache (python-apt) is the package index; its state is the       *)
(* candidate version, the install mark and the installed version of every  *)
(* package.                                                                *)
(***************************************************************************)
EXTENDS Integers, Sequences, FiniteSets, TLC

(***************************************************************************)
(* Bounds of the model.                                                    *)
(***************************************************************************)
\* number of real packages of the index (names taken from AllNames)
NumPkgs == 3
\* longest list of package references handed to one fetch
MaxReq == 2

(***************************************************************************)
(* Versions.  A version string is "maj.min" or "maj.min~rc1".              *)
(***************************************************************************)
V(maj, min) == [maj |-> maj, min |-> min, pre |-> FALSE]
Vpre(maj, min) == [maj |-> maj, min |-> min, pre |-> TRUE]
\* Python's None where a version string is expected
NoVer == [maj |-> -1, min |-> -1, pre |-> FALSE]

\* apt_pkg.version_compare: the Debian ordering ("~" sorts before the end
\* of the string, numbers compare as numbers); -1, 0 or 1
DebCmp(v, w) ==
    IF v.maj # w.maj THEN (IF v.maj < w.maj THEN -1 ELSE 1)
    ELSE IF v.min # w.min THEN (IF v.min < w.min THEN -1 ELSE 1)
    ELSE IF v.pre = w.pre THEN 0
    ELSE IF v.pre THEN -1 ELSE 1

\* distutils LooseVersion: the string is split into numbers, runs of
\* letters and other characters; the lists compare as Python 2 lists, where
\* an int is below any str and a proper prefix is below the longer list.
\* A component is <<0, n>> for the number n and <<1, k>> for the k-th string.
LooseComponents(v) ==
    IF v.pre THEN << <<0, v.maj>>, <<0, v.min>>, <<1, 1>>, <<1, 2>>, <<0, 1>> >>
    ELSE << <<0, v.maj>>, <<0, v.min>> >>

RECURSIVE ListCmp(_, _)
ListCmp(a, b) ==
    IF a = <<>> /\ b = <<>> THEN 0
    ELSE IF a = <<>> THEN -1
    ELSE IF b = <<>> THEN 1
    ELSE IF Head(a)[1] # Head(b)[1] THEN (IF Head(a)[1] < Head(b)[1] THEN -1 ELSE 1)
    ELSE IF Head(a)[2] # Head(b)[2] THEN (IF Head(a)[2] < Head(b)[2] THEN -1 ELSE 1)
    ELSE ListCmp(Tail(a), Tail(b))

LooseCmp(v, w) == ListCmp(LooseComponents(v), LooseComponents(w))

\* apt_pkg.check_dep(pkgver, op, depver); op "" is the unversioned dependency
CheckDep(v, op, w) ==
    CASE op = "" -> TRUE
      [] op = "<"  -> DebCmp(v, w) < 0
      [] op = "<=" -> DebCmp(v, w) <= 0
      [] op = "="  -> DebCmp(v, w) = 0
      [] op = "!=" -> DebCmp(v, w) # 0
      [] op = ">=" -> DebCmp(v, w) >= 0
      [] op = ">"  -> DebCmp(v, w) > 0

(***************************************************************************)
(* OpxRelPackageRestriction and OpxRelPackage.                             *)
(***************************************************************************)
\* a version string or None, as a bound of a restriction and as the
\* version of a clause: None is <<>>, the string v is <<v>>
None == <<>>
Some(v) == <<v>>

\* OpxRelPackage.restriction is None
NoRestriction == [lower_bound |-> None, lower_bound_inclusive |-> FALSE,
                  upper_bound |-> None, upper_bound_inclusive |-> FALSE,
                  none |-> TRUE]

Restriction(lb, lbi, ub, ubi) ==
    [lower_bound |-> lb, lower_bound_inclusive |-> lbi,
     upper_bound |-> ub, upper_bound_inclusive |-> ubi, none |-> FALSE]

OpxRelPackage(name, restriction) == [name |-> name, restriction |-> restriction]

\* the result of toDebian when '=' + None raises TypeError
TypeErrorClause == [op |-> "TypeError", ver |-> None]

\* OpxRelPackageRestriction.toDebian: a clause is the operator and the
\* version that follows it
RestrictionToDebian(r) ==
    IF r.lower_bound_inclusive /\ r.lower_bound = r.upper_bound /\ r.upper_bound_inclusive
    THEN IF r.lower_bound = None THEN <<TypeErrorClause>>
         ELSE << [op |-> "=", ver |-> r.lower_bound] >>
    ELSE IF ~r.lower_bound_inclusive /\ r.lower_bound = r.upper_bound /\ ~r.upper_bound_inclusive
    THEN IF r.lower_bound = None THEN <<TypeErrorClause>>
         ELSE << [op |-> "!=", ver |-> r.lower_bound] >>
    ELSE (IF r.lower_bound # None
          THEN << [op |-> IF r.lower_bound_inclusive THEN ">=" ELSE ">>",
                   ver |-> r.lower_bound] >>
          ELSE <<>>)
         \o
         (IF r.upper_bound # None
          THEN << [op |-> IF r.upper_bound_inclusive THEN "<=" ELSE "<<",
                   ver |-> r.upper_bound] >>
          ELSE <<>>)

\* OpxRelPackageRestriction.__str__: the characters of the interval, or
\* TypeError when '[' + None is asked for
StrOfRestriction(r) ==
    LET open == IF r.lower_bound_inclusive THEN "[" ELSE "("
        close == IF r.upper_bound_inclusive THEN "]" ELSE ")"
        lower == IF r.lower_bound = None THEN <<>> ELSE r.lower_bound[1]
        upper == IF r.upper_bound = None THEN <<>> ELSE r.upper_bound[1]
    IN IF /\ r.lower_bound = r.upper_bound
          /\ r.lower_bound_inclusive = r.upper_bound_inclusive
       THEN IF r.lower_bound = None
            THEN [status |-> "TypeError", text |-> <<>>]
            ELSE [status |-> "ok", text |-> <<open>> \o lower \o <<close>>]
       ELSE [status |-> "ok",
             text |-> <<open>> \o lower \o <<",">> \o upper \o <<close>>]

\* OpxRelPackage.toDebian: "name(op version)" for every clause, or "name"
ToDebian(p) ==
    IF p.restriction.none
    THEN << [name |-> p.name, op |-> "", ver |-> None] >>
    ELSE LET rs == RestrictionToDebian(p.restriction)
         IN [i \in 1..Len(rs) |->
                [name |-> p.name, op |-> rs[i].op, ver |-> rs[i].ver]]

\* apt_pkg.parse_depends(text)[0][0]: (name, version, relation), where
\* the relations "<<" and ">>" come back as "<" and ">"
ParseDepends(c) ==
    [name |-> c.name, ver |-> IF c.ver = None THEN NoVer ELSE c.ver[1],
     op |-> IF c.op = "<<" THEN "<" ELSE IF c.op = ">>" THEN ">" ELSE c.op]

(***************************************************************************)
(* OpxRelPackage.fromElement.  A text is the sequence of its characters.   *)
(***************************************************************************)
\* the characters of the texts the model parses
Lower == {"a", "b", "c", "r"}
Upper == {"A"}
Digit == {"0", "1", "2", "5"}
\* \s
Space == {" "}
\* [a-zA-Z0-9], the first character of a name
NameFirst == Lower \cup Upper \cup Digit
\* [a-zA-Z0-9+-.], where +-. is the range from "+" to "."
NameRest == NameFirst \cup {"+", ",", "-", "."}
\* [a-z0-9+-.:~]
VersionRest == Lower \cup Digit \cup {"+", ",", "-", ".", ":", "~"}

\* an attribute that is not there, elem.text of an element without text
NoText == <<"None">>

\* the first place from i on whose character is not of the class
RECURSIVE RunEnd(_, _, _)
RunEnd(t, i, class) ==
    IF i <= Len(t) /\ t[i] \in class THEN RunEnd(t, i + 1, class) ELSE i

Slice(t, i, j) == IF i > j THEN <<>> ELSE SubSeq(t, i, j)

\* [0-9][a-z0-9+-.:~]+ matches the whole of t
IsVersion(t) ==
    /\ Len(t) >= 2
    /\ t[1] \in Digit
    /\ \A i \in 2..Len(t) : t[i] \in VersionRest

\* the relation (<<|<=|!=|=|>=|>>) that starts at place i, "" if none does
RelationAt(t, i) ==
    IF i + 1 <= Len(t) /\ <<t[i], t[i + 1]>> \in
          {<<"<", "<">>, <<"<", "=">>, <<"!", "=">>, <<">", "=">>, <<">", ">">>}
    THEN <<t[i], t[i + 1]>>
    ELSE IF i <= Len(t) /\ t[i] = "=" THEN <<"=">>
    ELSE <<>>

NoMatch == [ok |-> FALSE, name |-> <<>>, relation |-> <<>>, version |-> <<>>]

\* re.match of line 224 on elem.text:
\*   \A(name)\s*(?:\(\s*(relation)\s*(version)\s*\))?\s*\Z
\* name and version are runs of characters that neither a blank nor a
\* parenthesis is part of, so each is the longest run
MatchText(t) ==
    LET n == IF t # <<>> /\ t[1] \in NameFirst THEN RunEnd(t, 2, NameRest) ELSE 0
        p == RunEnd(t, n, Space)
        q == RunEnd(t, p + 1, Space)
        rel == RelationAt(t, q)
        r == RunEnd(t, q + Len(rel), Space)
        w == IF r <= Len(t) /\ t[r] \in Digit THEN RunEnd(t, r + 1, VersionRest) ELSE 0
        x == RunEnd(t, w, Space)
        y == RunEnd(t, x + 1, Space)
    IN IF n < 3 THEN NoMatch
       ELSE IF p > Len(t)
       THEN [ok |-> TRUE, name |-> Slice(t, 1, n - 1), relation |-> <<>>,
             version |-> <<>>]
       ELSE IF /\ t[p] = "("
               /\ rel # <<>>
               /\ w >= r + 2
               /\ x <= Len(t) /\ t[x] = ")"
               /\ y > Len(t)
       THEN [ok |-> TRUE, name |-> Slice(t, 1, n - 1), relation |-> rel,
             version |-> Slice(t, r, w - 1)]
       ELSE NoMatch

\* re.match of line 279 on the version attribute:
\*   \A([[(])(version)?,(version)?([])])\Z
\* a version may hold a comma, so the first group is the longest that
\* leaves a match for the rest; k is the place of its last character
MatchInterval(t) ==
    LET ks == {k \in 1..(Len(t) - 2) :
                 /\ k = 1 \/ IsVersion(Slice(t, 2, k))
                 /\ t[k + 1] = ","
                 /\ k + 2 = Len(t) \/ IsVersion(Slice(t, k + 2, Len(t) - 1))}
        k == CHOOSE m \in ks : \A j \in ks : j <= m
    IN IF Len(t) >= 3 /\ t[1] \in {"[", "("} /\ t[Len(t)] \in {"]", ")"} /\ ks # {}
       THEN [ok |-> TRUE,
             g1 |-> t[1],
             g2 |-> IF k = 1 THEN None ELSE Some(Slice(t, 2, k)),
             g3 |-> IF k + 2 = Len(t) THEN None ELSE Some(Slice(t, k + 2, Len(t) - 1)),
             g4 |-> t[Len(t)]]
       ELSE [ok |-> FALSE, g1 |-> "", g2 |-> None, g3 |-> None, g4 |-> ""]

\* re.match of line 289 or 299: the version between the two characters
MatchSingle(t, open, close) ==
    /\ Len(t) >= 4
    /\ t[1] = open /\ t[Len(t)] = close
    /\ IsVersion(Slice(t, 2, Len(t) - 1))

\* what fromElement returns or raises
Parsed(pkg) == [status |-> "ok", pkg |-> pkg]
Raised(exc) == [status |-> exc, pkg |-> OpxRelPackage(NoText, NoRestriction)]
NotParsed == Raised("none")

\* lines 234-270: the bounds of the relation of the text form.  Two of the
\* branches assign lower_bound_inclusive twice and upper_bound_inclusive
\* never, and line 270 reads the unbound local
FromRelation(name, relation, version) ==
    CASE relation = <<"<", "<">> ->
           Parsed(OpxRelPackage(name, Restriction(None, FALSE, Some(version), FALSE)))
      [] relation = <<"<", "=">> ->
           Parsed(OpxRelPackage(name, Restriction(None, FALSE, Some(version), TRUE)))
      [] relation = <<"!", "=">> -> Raised("UnboundLocalError")
      [] relation = <<"=">> -> Raised("UnboundLocalError")
      [] relation = <<">", "=">> ->
           Parsed(OpxRelPackage(name, Restriction(Some(version), TRUE, None, FALSE)))
      [] relation = <<">", ">">> ->
           Parsed(OpxRelPackage(name, Restriction(Some(version), TRUE, None, FALSE)))

\* lines 223-272: the element has a text
FromElementText(text) ==
    LET m == MatchText(text)
    IN IF ~m.ok THEN Raised("ValueError")
       ELSE IF m.relation = <<>> THEN Parsed(OpxRelPackage(m.name, NoRestriction))
       ELSE FromRelation(m.name, m.relation, m.version)

\* lines 274-308: the element has the attributes name and version
FromElementAttributes(name, version) ==
    IF version = NoText \/ version = <<>>
    THEN Parsed(OpxRelPackage(name, NoRestriction))
    ELSE IF MatchInterval(version).ok
    THEN LET m == MatchInterval(version)
         IN Parsed(OpxRelPackage(name, Restriction(m.g2, m.g1 = "[", m.g3, m.g4 = "]")))
    ELSE IF MatchSingle(version, "[", "]")
    THEN LET v == Slice(version, 2, Len(version) - 1)
         IN Parsed(OpxRelPackage(name, Restriction(Some(v), TRUE, Some(v), TRUE)))
    ELSE IF MatchSingle(version, "(", ")")
    THEN LET v == Slice(version, 2, Len(version) - 1)
         IN Parsed(OpxRelPackage(name, Restriction(Some(v), FALSE, Some(v), FALSE)))
    ELSE Raised("ValueError")

VARIABLES
    elem,           \* the package element: text, name and version attribute
    parsed,         \* what fromElement made of it
    debian,         \* what toDebian made of the parsed package
    shown,          \* what str() made of the parsed restriction
    reparsed        \* what fromElement made of the name and str()

parser == <<elem, parsed, debian, shown, reparsed>>

\* toDebian and str() have not been called
NoClauses == [status |-> "none", list |-> <<>>]
NotShown == [status |-> "none", text |-> <<>>]

\* a package element: elem.text, elem.get('name'), elem.get('version'), and
\* the words the blueprint author wrote it from
Element(text, name, version, written) ==
    [text |-> text, name |-> name, version |-> version, written |-> written]

Written(form, name, relation, version) ==
    [form |-> form, name |-> name, relation |-> relation, version |-> version]

\* no element is parsed
NoElem == Element(NoText, NoText, NoText, Written("", <<>>, <<>>, <<>>))

(***************************************************************************)
(* The release assembly: main, OpxRelBlueprint, OpxRelPackageAssembler.    *)
(***************************************************************************)
VARIABLES
    doc,            \* the blueprint document and the arguments of main
    blueprint,      \* rel_blueprint, the OpxRelBlueprint that was loaded
    step,           \* the statement of main that comes next
    raised,         \* the exception that ended main
    rootfs,         \* the names apt lists as installed in the rootfs
    archives,       \* the names of the .deb files in var/cache/apt/archives
    setsDone,       \* in add_packages: the package sets the loop has done
    missing,        \* the names verify_packages printed as missing
    log,            \* the calls made so far, each with how it ended
    outputs,        \* in make_output: the calls that make and record the output
    sources_list,   \* etc/apt/sources.list of the sysroot: its lines, if it exists
    sources_save    \* etc/apt/sources.list.save of the sysroot

\* the files of the sysroot and of the output that the assembly writes
files == <<outputs, sources_list, sources_save>>

assembly == <<doc, blueprint, step, raised, rootfs, archives, setsDone, missing, log,
              outputs, sources_list, sources_save>>

\* no blueprint has been loaded
NoBlueprint ==
    [loaded |-> FALSE, package_sets |-> <<>>,
     output_format |-> [version |-> "", tar_archive |-> FALSE, ONIE_image |-> FALSE,
                        ONIE_pkg |-> FALSE, package_cache |-> FALSE]]

NoDoc ==
    [package_sets |-> <<>>,
     output_format |-> [version |-> "", tar_archive |-> FALSE, ONIE_image |-> FALSE,
                        ONIE_pkg |-> FALSE, package_cache |-> FALSE],
     dist |-> ""]

\* main is not at work
InitNoAssembly ==
    /\ doc = NoDoc
    /\ blueprint = NoBlueprint
    /\ step = "idle"
    /\ raised = ""
    /\ rootfs = {}
    /\ archives = {}
    /\ setsDone = 0
    /\ missing = {}
    /\ log = <<>>
    /\ outputs = <<>>
    /\ sources_list = None
    /\ sources_save = None

(***************************************************************************)
(* The package index (apt cache).                                          *)
(***************************************************************************)
\* package names in the order Python sorts them
NameOrder == <<"a", "b", "c", "d", "debconf-2.0", "e", "makedev", "z">>
Rank(n) == CHOOSE i \in 1..Len(NameOrder) : NameOrder[i] = n

\* the real packages of the index
Pkgs == {NameOrder[i] : i \in 1..NumPkgs}
\* the alternatives _fetch_package drops from an or-dependency
LegacyAliases == {"makedev", "debconf-2.0"}
\* every name a dependency or a request can carry; "z" is in no index
Names == Pkgs \cup LegacyAliases \cup {"z"}

VARIABLES
    versions,       \* name -> pkg.versions, in the order the cache lists them
    depends,        \* package -> version -> depends_list["Depends"]
    provides,       \* package -> the names its versions provide
    installedVer,   \* name -> the installed version (NoVer: CURSTATE_NOT_INSTALLED)
    default_solver, \* OpxPackages._default_solver
    request,        \* the package references of the package set
    candidate,      \* name -> candidate version of the depcache
    marked,         \* name -> depcache.marked_install
    pc,             \* position in fetch
    reqDepends,     \* the OrderedDict depends of fetch, as a list of items
    idx,            \* number of items of reqDepends fetch has gone through
    stack,          \* the active calls of _fetch_package, innermost first
    error,          \* the exception fetch ended with, "" if none
    fpCalls,        \* name -> number of calls of _fetch_package(pkg)
    depReads,       \* name -> number of reads of its depends_list
    markCalls,      \* name -> number of calls of depcache.mark_install(pkg)
    lookedUp,       \* the names fetch looked up in the cache, in order
    repairCalls,    \* number of calls of depcache.fix_broken
    fetchCalls,     \* number of calls of cache.fetch_archives
    fetched,        \* the packages handed to fetch_archives
    lastPick        \* the last candidate _fetch_package set for a dependency:
                    \* the caller, its depends_list, the target name, the
                    \* version set and the package the call went into

vars == <<versions, depends, provides, installedVer, default_solver, request,
          candidate, marked, pc, reqDepends, idx, stack, error, fpCalls,
          depReads, markCalls, lookedUp, repairCalls, fetchCalls, fetched,
          lastPick, elem, parsed, debian, shown, reparsed, doc, blueprint, step,
          raised, rootfs, archives, setsDone, missing, log>>

index == <<versions, depends, provides, installedVer, default_solver, request>>

\* VersionWrapper: a version of a package (parent_pkg.name, ver_str)
VersionWrapper(p, v) == [pkg |-> p, ver |-> v]
NoVersion == VersionWrapper("", NoVer)

VersionsOf(p) == {VersionWrapper(p, versions[p][i]) : i \in 1..Len(versions[p])}

\* one alternative of a Depends clause
Dep(t, op, v) == [target |-> t, op |-> op, ver |-> v]

\* apt_pkg.Dependency.all_targets: the versions of the target package that
\* pass the version check, and the versions of the packages that provide
\* the target name (an unversioned Provides passes an unversioned check)
AllTargets(dep) ==
    {x \in VersionsOf(dep.target) : CheckDep(x.ver, dep.op, dep.ver)}
    \cup {x \in UNION {VersionsOf(q) : q \in Pkgs} :
             dep.target \in provides[x.pkg] /\ dep.op = ""}

(***************************************************************************)
(* OpxPackages._fetch_package.                                             *)
(***************************************************************************)
\* version = self._depcache.get_candidate_ver(pkg); version.depends_list
DependsList(p) == depends[p][candidate[p]]

\* no alternative is dropped
FilterAlternatives_Never(or_deps) == or_deps

\* the or-dependency special case: makedev and debconf-2.0 are dropped from
\* a group of more than one alternative
FilterAlternatives(or_deps) ==
    IF Len(or_deps) # 1
    THEN SelectSeq(or_deps, LAMBDA d : d.target \notin LegacyAliases)
    ELSE or_deps

\* some group is left with no or with several alternatives
OrDepsError(groups) ==
    \E i \in 1..Len(groups) : Len(FilterAlternatives(groups[i])) # 1

\* dep_versions of one dependency: a defaultdict that gets the key
\* dep.target_pkg.name only when all_targets() yields a version
DepVersions(dep) ==
    IF AllTargets(dep) = {} THEN <<>>
    ELSE (dep.target :> AllTargets(dep))

\* pkg_versions after the loop over depends_list["Depends"]
RECURSIVE PkgVersions(_, _)
PkgVersions(groups, acc) ==
    IF groups = <<>> THEN acc
    ELSE LET dv == DepVersions(FilterAlternatives(Head(groups))[1])
             merged == [n \in DOMAIN acc \cup DOMAIN dv |->
                           IF n \notin DOMAIN acc THEN dv[n]
                           ELSE IF n \notin DOMAIN dv THEN acc[n]
                           ELSE acc[n] \cap dv[n]]
         IN PkgVersions(Tail(groups), merged)

\* sorted(names): the names of a set in Python's order
RECURSIVE SortedNames(_)
SortedNames(S) ==
    IF S = {} THEN <<>>
    ELSE LET m == CHOOSE x \in S : \A y \in S : Rank(x) <= Rank(y)
         IN <<m>> \o SortedNames(S \ {m})

\* sorted(vx, key=LooseVersion(ver_str), reverse=True)[0]
BestVersion(vx) ==
    CHOOSE x \in vx : \A y \in vx : LooseCmp(x.ver, y.ver) >= 0

\* candidate_versions: the best version of every owning package, the
\* packages in the order of their names
CandidateVersions(vs) ==
    LET owners == SortedNames({x.pkg : x \in vs})
    IN [i \in 1..Len(owners) |-> BestVersion({x \in vs : x.pkg = owners[i]})]

\* the loop without the test of dep_pkg.current_state
AlreadyInstalled_NoCurrentState(dep_pkg, backtrace) ==
    \/ \E i \in 1..Len(backtrace) : backtrace[i] = dep_pkg
    \/ marked[dep_pkg]

\* the three tests of the loop "Determine whether any of the candidates
\* are already installed"
AlreadyInstalled(dep_pkg, backtrace) ==
    \/ \E i \in 1..Len(backtrace) : backtrace[i] = dep_pkg
    \/ installedVer[dep_pkg] # NoVer
    \/ marked[dep_pkg]

\* installed after the loop over candidate_versions
Installed(cands, backtrace) ==
    \E i \in 1..Len(cands) : AlreadyInstalled(cands[i].pkg, backtrace)

\* dep_pkg after the loop: the package of the candidate the loop stopped
\* at, or of the last candidate when the loop ran to its end
LoopDepPkg(cands, backtrace) ==
    IF Installed(cands, backtrace)
    THEN LET i == CHOOSE k \in 1..Len(cands) :
                     /\ AlreadyInstalled(cands[k].pkg, backtrace)
                     /\ \A j \in 1..(k - 1) : ~AlreadyInstalled(cands[j].pkg, backtrace)
         IN cands[i].pkg
    ELSE cands[Len(cands)].pkg

\* a call of _fetch_package(pkg, backtrace=backtrace); recursed holds the
\* packages the call at line 405 was made on, from this call
Frame(pkg, backtrace) ==
    [pkg |-> pkg, backtrace |-> backtrace, phase |-> "enter", depends |-> <<>>,
     pkg_versions |-> <<>>, todo |-> {}, recursed |-> {}]

Bump(f, n) == [f EXCEPT ![n] = @ + 1]

\* raise OpxPackagesError(msg): the exception leaves every active call
Raise(msg) ==
    /\ pc' = "error"
    /\ error' = msg
    /\ stack' = <<>>

\* lines 304-326: an or-dependency that the special case does not reduce
FpOrDepsError ==
    /\ pc = "fetch_package"
    /\ Head(stack).phase = "enter"
    /\ OrDepsError(DependsList(Head(stack).pkg))
    /\ depReads' = Bump(depReads, Head(stack).pkg)
    /\ Raise("Can't handle or-dependencies")
    /\ UNCHANGED <<index, parser, assembly, candidate, marked, reqDepends, idx, fpCalls, markCalls,
                   lookedUp, repairCalls, fetchCalls, fetched, lastPick>>

\* lines 304-343: pkg_versions is computed
FpReadDepends ==
    /\ pc = "fetch_package"
    /\ Head(stack).phase = "enter"
    /\ ~OrDepsError(DependsList(Head(stack).pkg))
    /\ depReads' = Bump(depReads, Head(stack).pkg)
    /\ LET pv == PkgVersions(DependsList(Head(stack).pkg), <<>>)
       IN stack' = <<[Head(stack) EXCEPT !.phase = "deps",
                                         !.depends = DependsList(Head(stack).pkg),
                                         !.pkg_versions = pv,
                                         !.todo = DOMAIN pv]>> \o Tail(stack)
    /\ UNCHANGED <<index, parser, assembly, candidate, marked, pc, reqDepends, idx, error, fpCalls,
                   markCalls, lookedUp, repairCalls, fetchCalls, fetched, lastPick>>

\* lines 348-353: one turn of the loop over pkg_versions.items(), whose
\* order is the dictionary's; no version is in the intersection
FpUnsatisfiable ==
    /\ pc = "fetch_package"
    /\ Head(stack).phase = "deps"
    /\ \E name \in Head(stack).todo :
          /\ Head(stack).pkg_versions[name] = {}
          /\ Raise("Unable to satisfy dependency")
    /\ UNCHANGED <<index, parser, assembly, candidate, marked, reqDepends, idx, fpCalls, depReads,
                   markCalls, lookedUp, repairCalls, fetchCalls, fetched, lastPick>>

\* lines 348-398: one turn of the loop; a candidate is in the backtrace,
\* installed or marked, and nothing is done for this name
FpSkipInstalled ==
    /\ pc = "fetch_package"
    /\ Head(stack).phase = "deps"
    /\ \E name \in Head(stack).todo :
          /\ Head(stack).pkg_versions[name] # {}
          /\ Installed(CandidateVersions(Head(stack).pkg_versions[name]),
                       Head(stack).backtrace)
          /\ stack' = <<[Head(stack) EXCEPT !.todo = @ \ {name}]>> \o Tail(stack)
    /\ UNCHANGED <<index, parser, assembly, candidate, marked, pc, reqDepends, idx, error, fpCalls,
                   depReads, markCalls, lookedUp, repairCalls, fetchCalls, fetched,
                   lastPick>>

\* depcache.set_candidate_ver(dep_pkg, ver): libapt's SetCandidateVersion
\* takes the package from the version (ver.parent_pkg), not from dep_pkg
SetCandidateVer(dep_pkg, v) == [candidate EXCEPT ![v.pkg] = v.ver]

\* lines 348-405: one turn of the loop; no candidate is installed: the
\* first candidate is set and _fetch_package(dep_pkg, [pkg]+backtrace) called
FpRecurse ==
    /\ pc = "fetch_package"
    /\ Head(stack).phase = "deps"
    /\ \E name \in Head(stack).todo :
          LET top == Head(stack)
              cands == CandidateVersions(top.pkg_versions[name])
              dep_pkg == LoopDepPkg(cands, top.backtrace)
              v == cands[1]
          IN /\ top.pkg_versions[name] # {}
             /\ ~Installed(cands, top.backtrace)
             /\ candidate' = SetCandidateVer(dep_pkg, v)
             /\ stack' = <<Frame(dep_pkg, <<top.pkg>> \o top.backtrace),
                           [top EXCEPT !.todo = @ \ {name},
                                       !.recursed = @ \cup {dep_pkg}]>> \o Tail(stack)
             /\ fpCalls' = Bump(fpCalls, dep_pkg)
             /\ lastPick' = [pkg |-> top.pkg, depends |-> top.depends, name |-> name,
                             ver |-> v, dep_pkg |-> dep_pkg]
    /\ UNCHANGED <<index, parser, assembly, marked, pc, reqDepends, idx, error, depReads, markCalls,
                   lookedUp, repairCalls, fetchCalls, fetched>>

\* pkg is marked when the call is entered, before its dependencies
FpMarkInstall_Early ==
    /\ pc = "fetch_package"
    /\ Head(stack).phase = "enter"
    /\ marked' = [marked EXCEPT ![Head(stack).pkg] =
                     (candidate[Head(stack).pkg] # installedVer[Head(stack).pkg])]
    /\ markCalls' = Bump(markCalls, Head(stack).pkg)
    /\ stack' = Tail(stack)
    /\ IF Tail(stack) = <<>>
       THEN pc' = "names" /\ idx' = idx + 1
       ELSE UNCHANGED <<pc, idx>>
    /\ UNCHANGED <<index, parser, assembly, candidate, reqDepends, error, fpCalls, depReads,
                   lookedUp, repairCalls, fetchCalls, fetched, lastPick>>

\* depcache.mark_install(pkg, False, from_user): the package is marked for
\* install unless its candidate is the installed version (it is kept)
MarkInstall(p) ==
    [marked EXCEPT ![p] = (candidate[p] # installedVer[p])]

\* lines 407-410: the loop is over and pkg is marked; the call returns, to
\* the caller's loop or to fetch (line 476, and the next name)
FpMarkInstall ==
    /\ pc = "fetch_package"
    /\ Head(stack).phase = "deps"
    /\ Head(stack).todo = {}
    /\ marked' = MarkInstall(Head(stack).pkg)
    /\ markCalls' = Bump(markCalls, Head(stack).pkg)
    /\ stack' = Tail(stack)
    /\ IF Tail(stack) = <<>>
       THEN pc' = "names" /\ idx' = idx + 1
       ELSE UNCHANGED <<pc, idx>>
    /\ UNCHANGED <<index, parser, assembly, candidate, reqDepends, error, fpCalls, depReads,
                   lookedUp, repairCalls, fetchCalls, fetched, lastPick>>

\* lines 409-412: mark_install raises SystemError
FpMarkFailed ==
    /\ pc = "fetch_package"
    /\ Head(stack).phase = "deps"
    /\ Head(stack).todo = {}
    /\ markCalls' = Bump(markCalls, Head(stack).pkg)
    /\ Raise("SystemError")
    /\ UNCHANGED <<index, parser, assembly, candidate, marked, reqDepends, idx, fpCalls, depReads,
                   lookedUp, repairCalls, fetchCalls, fetched, lastPick>>

(***************************************************************************)
(* OpxRelPackageAssembler.add_packages and OpxPackages.fetch.              *)
(***************************************************************************)
\* add_packages: deb_package_list.extend(package.toDebian()) for the
\* packages of the set
RECURSIVE DebPackageList(_)
DebPackageList(refs) ==
    IF refs = <<>> THEN <<>>
    ELSE ToDebian(Head(refs)) \o DebPackageList(Tail(refs))

\* fetch, lines 426-431: the OrderedDict depends as a list of items
\* (name, list of parsed clauses), a name at the place of its first clause
RECURSIVE GroupDepends(_, _)
GroupDepends(names, acc) ==
    IF names = <<>> THEN acc
    ELSE LET pkg == ParseDepends(Head(names))
             at == {i \in 1..Len(acc) : acc[i].name = pkg.name}
         IN IF at = {}
            THEN GroupDepends(Tail(names),
                              Append(acc, [name |-> pkg.name, clauses |-> <<pkg>>]))
            ELSE GroupDepends(Tail(names),
                              [acc EXCEPT ![CHOOSE i \in at : TRUE].clauses =
                                              Append(@, pkg)])

\* only the first clause of the name is tested
SatisfiesAll_FirstOnly(v, clauses) ==
    CheckDep(v, clauses[1].op, clauses[1].ver)

\* lines 443-453: the version satisfies every clause of the name
SatisfiesAll(v, clauses) ==
    \A i \in 1..Len(clauses) : CheckDep(v, clauses[i].op, clauses[i].ver)

\* lines 442-456: the places in pkg.versions of the versions that qualify
Qualifying(name, clauses) ==
    {i \in 1..Len(versions[name]) : SatisfiesAll(versions[name][i], clauses)}

\* the version the loop over pkg.versions stops at: the first that qualifies
FoundVersion(name, clauses) ==
    versions[name][CHOOSE i \in Qualifying(name, clauses) :
                       \A j \in Qualifying(name, clauses) : i <= j]

\* the item of depends the loop of line 433 is at
Current == reqDepends[idx + 1]

AtName == pc = "names" /\ idx < Len(reqDepends)

\* add_packages builds the list of names; fetch groups them (426-431)
FetchGroup ==
    /\ pc = "start"
    /\ LET names == DebPackageList(request)
       IN IF \E i \in 1..Len(names) : names[i].op = "TypeError"
          THEN /\ Raise("TypeError")
               /\ UNCHANGED reqDepends
          ELSE /\ reqDepends' = GroupDepends(names, <<>>)
               /\ pc' = "names"
               /\ UNCHANGED <<stack, error>>
    /\ UNCHANGED <<index, parser, assembly, candidate, marked, idx, fpCalls, depReads, markCalls,
                   lookedUp, repairCalls, fetchCalls, fetched, lastPick>>

\* the KeyError is swallowed and the loop goes to the next name
FetchNotFound_Continue ==
    /\ AtName
    /\ versions[Current.name] = <<>>
    /\ lookedUp' = Append(lookedUp, Current.name)
    /\ idx' = idx + 1
    /\ UNCHANGED <<index, parser, assembly, candidate, marked, pc, reqDepends, stack, error, fpCalls,
                   depReads, markCalls, repairCalls, fetchCalls, fetched, lastPick>>

\* lines 434-438: self._cache[package_name] raises KeyError
FetchNotFound ==
    /\ AtName
    /\ versions[Current.name] = <<>>
    /\ lookedUp' = Append(lookedUp, Current.name)
    /\ Raise("Can't find package in package cache")
    /\ UNCHANGED <<index, parser, assembly, candidate, marked, reqDepends, idx, fpCalls, depReads,
                   markCalls, repairCalls, fetchCalls, fetched, lastPick>>

\* lines 440-479: no version satisfies the revision specifications
FetchUnsatisfiable ==
    /\ AtName
    /\ versions[Current.name] # <<>>
    /\ Qualifying(Current.name, Current.clauses) = {}
    /\ lookedUp' = Append(lookedUp, Current.name)
    /\ Raise("Failed to locate package that satisfies revision specifications")
    /\ UNCHANGED <<index, parser, assembly, candidate, marked, reqDepends, idx, fpCalls, depReads,
                   markCalls, repairCalls, fetchCalls, fetched, lastPick>>

\* lines 455-458 and 472-474: pkg.candidate = v, then the modified solver
FetchModifiedSolver ==
    /\ AtName
    /\ ~default_solver
    /\ Qualifying(Current.name, Current.clauses) # {}
    /\ lookedUp' = Append(lookedUp, Current.name)
    /\ candidate' = [candidate EXCEPT ![Current.name] =
                        FoundVersion(Current.name, Current.clauses)]
    /\ stack' = <<Frame(Current.name, <<>>)>>
    /\ fpCalls' = Bump(fpCalls, Current.name)
    /\ pc' = "fetch_package"
    /\ UNCHANGED <<index, parser, assembly, marked, reqDepends, idx, error, depReads, markCalls,
                   repairCalls, fetchCalls, fetched, lastPick>>

\* the packages apt's own solver marks with auto_inst: the package and the
\* targets, not installed, of the first alternative of its dependencies
RECURSIVE AutoInstall(_, _)
AutoInstall(S, cand) ==
    LET more == {g[1].target : g \in UNION {
                    {depends[p][cand[p]][i] : i \in 1..Len(depends[p][cand[p]])} :
                    p \in S}}
        T == S \cup {t \in more : t \in Pkgs /\ installedVer[t] = NoVer}
    IN IF T = S THEN S ELSE AutoInstall(T, cand)

\* a kept package raises the conflict, installed or not
FetchDefaultSolver_NoInstalledTest ==
    /\ AtName
    /\ default_solver
    /\ Qualifying(Current.name, Current.clauses) # {}
    /\ lookedUp' = Append(lookedUp, Current.name)
    /\ LET v == FoundVersion(Current.name, Current.clauses)
           cand == [candidate EXCEPT ![Current.name] = v]
       IN /\ candidate' = cand
          /\ \E outcome \in {"ok", "keep", "SystemError"} :
                CASE outcome = "ok" ->
                       /\ v # installedVer[Current.name]
                       /\ marked' = [n \in Names |->
                                       marked[n] \/ n \in AutoInstall({Current.name}, cand)]
                       /\ idx' = idx + 1
                       /\ UNCHANGED <<pc, error, stack>>
                  [] outcome = "keep" ->
                       /\ marked' = [marked EXCEPT ![Current.name] = FALSE]
                       /\ IF TRUE
                          THEN Raise("Could not install package due to version conflicts")
                               /\ UNCHANGED idx
                          ELSE idx' = idx + 1 /\ UNCHANGED <<pc, error, stack>>
                  [] outcome = "SystemError" ->
                       /\ Raise("SystemError")
                       /\ UNCHANGED <<marked, idx>>
    /\ UNCHANGED <<index, parser, assembly, reqDepends, fpCalls, depReads, markCalls, repairCalls,
                   fetchCalls, fetched, lastPick>>

\* lines 455-471: pkg.candidate = v, then apt's solver; "ok" marks, "keep"
\* leaves the package kept (marked_keep: it is not marked for install),
\* "SystemError" is mark_install raising
FetchDefaultSolver ==
    /\ AtName
    /\ default_solver
    /\ Qualifying(Current.name, Current.clauses) # {}
    /\ lookedUp' = Append(lookedUp, Current.name)
    /\ LET v == FoundVersion(Current.name, Current.clauses)
           cand == [candidate EXCEPT ![Current.name] = v]
       IN /\ candidate' = cand
          /\ \E outcome \in {"ok", "keep", "SystemError"} :
                CASE outcome = "ok" ->
                       /\ v # installedVer[Current.name]
                       /\ marked' = [n \in Names |->
                                       marked[n] \/ n \in AutoInstall({Current.name}, cand)]
                       /\ idx' = idx + 1
                       /\ UNCHANGED <<pc, error, stack>>
                  [] outcome = "keep" ->
                       /\ marked' = [marked EXCEPT ![Current.name] = FALSE]
                       /\ IF installedVer[Current.name] = NoVer
                          THEN Raise("Could not install package due to version conflicts")
                               /\ UNCHANGED idx
                          ELSE idx' = idx + 1 /\ UNCHANGED <<pc, error, stack>>
                  [] outcome = "SystemError" ->
                       /\ Raise("SystemError")
                       /\ UNCHANGED <<marked, idx>>
    /\ UNCHANGED <<index, parser, assembly, reqDepends, fpCalls, depReads, markCalls, repairCalls,
                   fetchCalls, fetched, lastPick>>

\* the version of a package after the marked changes: InstVer of apt
InstVer(n) == IF marked[n] THEN candidate[n] ELSE installedVer[n]

\* an or-group is satisfied when the version to be installed of a target
\* is one of all_targets()
GroupSatisfied(g) ==
    \E i \in 1..Len(g) :
        \E x \in AllTargets(g[i]) : InstVer(x.pkg) = x.ver

\* depcache.broken_count: the packages whose version to be installed has a
\* dependency that is not satisfied
BrokenCount ==
    Cardinality({p \in Pkgs :
        /\ InstVer(p) # NoVer
        /\ \E i \in 1..Len(depends[p][InstVer(p)]) :
              ~GroupSatisfied(depends[p][InstVer(p)][i])})

NamesDone == pc = "names" /\ idx = Len(reqDepends)

\* lines 481-485: fix_broken is tried and returns
FixBroken ==
    /\ NamesDone
    /\ BrokenCount > 0
    /\ repairCalls' = repairCalls + 1
    /\ pc' = "fetch_archives"
    /\ UNCHANGED <<index, parser, assembly, candidate, marked, reqDepends, idx, stack, error, fpCalls,
                   depReads, markCalls, lookedUp, fetchCalls, fetched, lastPick>>

\* the SystemError of fix_broken is noted and fetch goes on
FixBrokenFailed_Swallowed ==
    /\ NamesDone
    /\ BrokenCount > 0
    /\ repairCalls' = repairCalls + 1
    /\ error' = "We have broken dependencies"
    /\ pc' = "fetch_archives"
    /\ UNCHANGED <<index, parser, assembly, candidate, marked, reqDepends, idx, stack, fpCalls,
                   depReads, markCalls, lookedUp, fetchCalls, fetched, lastPick>>

\* lines 481-487: fix_broken raises SystemError
FixBrokenFailed ==
    /\ NamesDone
    /\ BrokenCount > 0
    /\ repairCalls' = repairCalls + 1
    /\ Raise("We have broken dependencies")
    /\ UNCHANGED <<index, parser, assembly, candidate, marked, reqDepends, idx, fpCalls, depReads,
                   markCalls, lookedUp, fetchCalls, fetched, lastPick>>

AtFetchArchives == pc = "fetch_archives" \/ (NamesDone /\ BrokenCount = 0)

\* lines 490-491: the archives of the marked packages are fetched
FetchArchives ==
    /\ AtFetchArchives
    /\ fetchCalls' = fetchCalls + 1
    /\ fetched' = {n \in Names : marked[n]}
    /\ pc' = "done"
    /\ UNCHANGED <<index, parser, assembly, candidate, marked, reqDepends, idx, stack, error, fpCalls,
                   depReads, markCalls, lookedUp, repairCalls, lastPick>>

\* lines 492-499: fetch_archives raises FetchFailedException or
\* FetchCancelledException
FetchArchivesFailed ==
    /\ AtFetchArchives
    /\ fetchCalls' = fetchCalls + 1
    /\ \E msg \in {"Fetch failed", "Fetch cancelled"} : Raise(msg)
    /\ UNCHANGED <<index, parser, assembly, candidate, marked, reqDepends, idx, fpCalls, depReads,
                   markCalls, lookedUp, repairCalls, fetched, lastPick>>

(***************************************************************************)
(* The indexes and requests the model is checked on.                       *)
(***************************************************************************)
\* a Depends clause with one alternative and no version
Unversioned(t) == <<Dep(t, "", NoVer)>>

\* the package after p in the cycle of the real packages
Succ(p) == NameOrder[(Rank(p) % NumPkgs) + 1]

\* the version lists of package "b", newest first as the cache lists them
BVersionChoices ==
    { <<V(2, 5), V(1, 5), V(0, 9)>>,
      <<V(2, 5), V(0, 9)>>,
      <<V(1, 5), Vpre(1, 5)>> }

\* Depends of "a" that restrict the version of "b"
ConstraintDepends ==
    { << <<Dep("b", ">=", V(1, 0))>>, <<Dep("b", "<=", V(2, 0))>> >>,
      << <<Dep("b", ">=", V(1, 0))>>, <<Dep("b", "<", V(0, 5))>> >>,
      << <<Dep("b", ">=", V(3, 0))>> >>,
      << <<Dep("b", ">=", V(2, 0))>> >>,
      << <<Dep("b", ">", V(0, 9))>>, <<Dep("b", "!=", V(2, 5))>> >>,
      << Unversioned("b") >> }

\* Depends of "a" without versions: none, itself, one or two targets,
\* or-dependencies
GraphDependsA ==
    { <<>>,
      << Unversioned("a") >>,
      << Unversioned("b") >>,
      << Unversioned("b"), Unversioned("c") >>,
      << Unversioned("a"), Unversioned("b") >>,
      << <<Dep("b", "", NoVer), Dep("makedev", "", NoVer)>> >>,
      << <<Dep("b", "", NoVer), Dep("c", "", NoVer)>> >>,
      << <<Dep("makedev", "", NoVer), Dep("debconf-2.0", "", NoVer)>>,
         Unversioned("b") >> }

\* Depends of the other packages: none, "a", itself, the next package
GraphDepends(p) ==
    { <<>>, << Unversioned("a") >>, << Unversioned(p) >>, << Unversioned(Succ(p)) >> }

\* every version of the package has the same Depends
Uniform(vs, groups) == [v \in {vs[i] : i \in 1..Len(vs)} |-> groups]

\* the requests: lists of at most MaxReq references
Requests(refs) == UNION {[1..n -> refs] : n \in 1..MaxReq}

ConstraintRefs ==
    { OpxRelPackage("a", NoRestriction),
      OpxRelPackage("b", NoRestriction),
      OpxRelPackage("b", Restriction(Some(V(1, 0)), TRUE, Some(V(2, 0)), TRUE)),
      OpxRelPackage("b", Restriction(Some(V(1, 0)), TRUE, None, FALSE)),
      OpxRelPackage("b", Restriction(None, FALSE, Some(V(1, 5)), FALSE)),
      OpxRelPackage("z", NoRestriction) }

GraphRefs ==
    { OpxRelPackage("a", NoRestriction), OpxRelPackage("b", NoRestriction) }

\* what every run starts with: nothing marked, the candidate of a package
\* is the newest version, fetch not entered
InitRun ==
    /\ candidate = [n \in Names |->
                      IF versions[n] = <<>> THEN NoVer ELSE versions[n][1]]
    /\ marked = [n \in Names |-> FALSE]
    /\ pc = "start"
    /\ reqDepends = <<>>
    /\ idx = 0
    /\ stack = <<>>
    /\ error = ""
    /\ fpCalls = [n \in Names |-> 0]
    /\ depReads = [n \in Names |-> 0]
    /\ markCalls = [n \in Names |-> 0]
    /\ lookedUp = <<>>
    /\ repairCalls = 0
    /\ fetchCalls = 0
    /\ fetched = {}
    /\ lastPick = [pkg |-> "", depends |-> <<>>, name |-> "", ver |-> NoVersion,
                   dep_pkg |-> ""]

\* "a" restricts the version of "b"; "b" has several versions and may be
\* installed in its oldest; either solver
InitConstraintOf(orders) ==
    /\ \E bv \in orders :
          versions = [n \in Names |->
                        IF n = "b" THEN bv
                        ELSE IF n \in Pkgs THEN <<V(1, 0)>> ELSE <<>>]
    /\ \E da \in ConstraintDepends :
          depends = [p \in Pkgs |->
                       Uniform(versions[p], IF p = "a" THEN da ELSE <<>>)]
    /\ provides = [p \in Pkgs |-> {}]
    /\ \E inst \in BOOLEAN :
          installedVer = [n \in Names |->
                            IF n = "b" /\ inst
                            THEN versions["b"][Len(versions["b"])] ELSE NoVer]
    /\ default_solver \in BOOLEAN
    /\ request \in Requests(ConstraintRefs)

\* the cache lists the versions of a package newest first
InitConstraint == InitConstraintOf(BVersionChoices)

\* dependency graphs over the packages, with cycles; "c" may provide "b";
\* "b" and "c" may be installed; the modified solver
InitGraphOf(providers) ==
    /\ versions = [n \in Names |->
                     IF n = "b" THEN <<V(2, 5), V(1, 5), V(0, 9)>>
                     ELSE IF n \in Pkgs THEN <<V(1, 0)>> ELSE <<>>]
    /\ \E d \in [Pkgs -> UNION {GraphDepends(p) : p \in Pkgs} \cup GraphDependsA] :
          /\ d["a"] \in GraphDependsA
          /\ \A p \in Pkgs \ {"a"} : d[p] \in GraphDepends(p)
          /\ depends = [p \in Pkgs |-> Uniform(versions[p], d[p])]
    /\ \E prov \in providers :
          provides = [p \in Pkgs |-> IF p = prov[1] THEN {prov[2]} ELSE {}]
    /\ \E inst \in SUBSET {"b", "c"} :
          installedVer = [n \in Names |->
                            IF n \in inst
                            THEN versions[n][Len(versions[n])] ELSE NoVer]
    /\ default_solver = FALSE
    /\ request \in Requests(GraphRefs)

\* <<p, n>>: the versions of p provide the name n; "z" is no package
InitGraph == InitGraphOf({<<"z", "b">>, <<"c", "b">>})

\* fromElement is not at work
InitNoElement ==
    /\ elem = NoElem
    /\ parsed = NotParsed
    /\ debian = NoClauses
    /\ shown = NotShown
    /\ reparsed = NotParsed

Init == (InitConstraint \/ InitGraph) /\ InitRun /\ InitNoElement /\ InitNoAssembly

Next ==
    \/ FetchGroup
    \/ FetchNotFound
    \/ FetchUnsatisfiable
    \/ FetchModifiedSolver
    \/ FetchDefaultSolver
    \/ FpOrDepsError
    \/ FpReadDepends
    \/ FpUnsatisfiable
    \/ FpSkipInstalled
    \/ FpRecurse
    \/ FpMarkInstall
    \/ FpMarkFailed
    \/ FixBroken
    \/ FixBrokenFailed
    \/ FetchArchives
    \/ FetchArchivesFailed

Spec == Init /\ [][Next]_vars

\* version lists of "b" in an order that is not newest first
UnsortedVersionChoices ==
    { <<V(0, 9), V(1, 5), V(2, 5)>>,
      <<V(1, 5), V(2, 5), V(0, 9)>> }

\* the indexes of Init, and those whose version lists are in any order and
\* those where the provider of a name sorts before the name
InitAnyIndex ==
    /\ \/ InitConstraintOf(BVersionChoices \cup UnsortedVersionChoices)
       \/ InitGraphOf({<<"z", "b">>, <<"c", "b">>, <<"b", "c">>})
    /\ InitRun /\ InitNoElement /\ InitNoAssembly

SpecAnyIndex == InitAnyIndex /\ [][Next]_vars

(***************************************************************************)
(* Properties of _fetch_package.                                           *)
(***************************************************************************)
\* the clauses of a depends_list that name the target, each the one
\* alternative the or-dependency special case leaves
ClausesOn(groups, name) ==
    {FilterAlternatives(groups[i])[1] : i \in
        {k \in 1..Len(groups) : /\ Len(FilterAlternatives(groups[k])) = 1
                                /\ FilterAlternatives(groups[k])[1].target = name}}

\* C1: the version _fetch_package sets as the candidate for a dependency
\* target satisfies every Depends clause of pkg that names the target.
C1_ChosenSatisfiesEveryClause ==
    lastPick.pkg # "" =>
        \A c \in ClausesOn(lastPick.depends, lastPick.name) :
            lastPick.ver \in AllTargets(c)

\* the versions that satisfy every clause of the depends_list on the target
SatisfyingAll(groups, name) ==
    {x \in UNION {AllTargets(c) : c \in ClausesOn(groups, name)} :
        \A c \in ClausesOn(groups, name) : x \in AllTargets(c)}

\* the targets the clauses of a depends_list name
Targets(groups) ==
    {FilterAlternatives(groups[i])[1].target : i \in
        {k \in 1..Len(groups) : Len(FilterAlternatives(groups[k])) = 1}}

\* C2: _fetch_package raises "Unable to satisfy dependency" for every target
\* with no version satisfying all clauses of pkg, so no call gets to
\* mark_install with such a target among its dependencies.
C2_EmptyTargetFails ==
    \A i \in 1..Len(stack) :
        (stack[i].phase = "deps" /\ stack[i].todo = {}) =>
            \A t \in Targets(stack[i].depends) :
                SatisfyingAll(stack[i].depends, t) # {}

\* C3: the recursion of _fetch_package does not go into a package whose
\* call is active, so there are never more active calls than packages.
C3_DepthBounded == Len(stack) <= Cardinality(Pkgs)

\* C4: with the modified solver, _fetch_package is called at most once for
\* a package and mark_install at most once, in one run of fetch.
C4_OncePerPackage ==
    ~default_solver =>
        \A n \in Names : fpCalls[n] <= 1 /\ markCalls[n] <= 1

\* C5: while _fetch_package works on a package other than b, an installed
\* b gets no call of _fetch_package, no read of its depends_list, no
\* mark_install and no new candidate.
C5_InstalledUntouched ==
    [][\A b \in Pkgs :
          (installedVer[b] # NoVer /\ stack # <<>> /\ Head(stack).pkg # b) =>
              /\ fpCalls'[b] = fpCalls[b]
              /\ depReads'[b] = depReads[b]
              /\ markCalls'[b] = markCalls[b]
              /\ marked'[b] = marked[b]
              /\ candidate'[b] = candidate[b]]_vars

\* a is called with its dependency b installed, and has returned
C5_Witness ==
    /\ installedVer["b"] # NoVer
    /\ "b" \in Targets(depends["a"][candidate["a"]])
    /\ markCalls["a"] = 1
    /\ fpCalls["b"] = 0
    /\ stack = <<>>

\* C6: when fetch, with the modified solver, has gone through every name
\* without an error, every
\* clause with one alternative of a package marked for install is satisfied
\* by the version of a target that is installed or marked for install.
C6_NoSilentMisresolution ==
    (~default_solver /\ NamesDone /\ error = "") =>
        \A p \in Pkgs :
            marked[p] =>
                \A i \in 1..Len(depends[p][candidate[p]]) :
                    Len(depends[p][candidate[p]][i]) = 1 =>
                        GroupSatisfied(depends[p][candidate[p]][i])

(***************************************************************************)
(* Properties of fetch.                                                    *)
(***************************************************************************)
\* the meaning of a restriction as a set of versions: "exactly v", "not v",
\* or the interval between the bounds
InRestriction(v, r) ==
    IF r.none THEN TRUE
    ELSE IF r.lower_bound = r.upper_bound /\ r.lower_bound_inclusive
            /\ r.upper_bound_inclusive
    THEN DebCmp(v, r.lower_bound[1]) = 0
    ELSE IF r.lower_bound = r.upper_bound /\ ~r.lower_bound_inclusive
            /\ ~r.upper_bound_inclusive
    THEN DebCmp(v, r.lower_bound[1]) # 0
    ELSE /\ r.lower_bound # None =>
               IF r.lower_bound_inclusive THEN DebCmp(v, r.lower_bound[1]) >= 0
               ELSE DebCmp(v, r.lower_bound[1]) > 0
         /\ r.upper_bound # None =>
               IF r.upper_bound_inclusive THEN DebCmp(v, r.upper_bound[1]) <= 0
               ELSE DebCmp(v, r.upper_bound[1]) < 0

\* the restrictions the request carries for a name
RestrictionsOf(n) ==
    {request[i].restriction : i \in {k \in 1..Len(request) : request[k].name = n}}

\* the version is in every restriction requested for the name
Requested(v, n) == \A r \in RestrictionsOf(n) : InRestriction(v, r)

\* the names of the request, each at the place it is first seen
RECURSIVE FirstSeen(_, _)
FirstSeen(refs, acc) ==
    IF refs = <<>> THEN acc
    ELSE FirstSeen(Tail(refs),
                   IF \E i \in 1..Len(acc) : acc[i] = Head(refs).name
                   THEN acc ELSE Append(acc, Head(refs).name))

NotFoundMsg == "Can't find package in package cache"
UnsatisfiableMsg == "Failed to locate package that satisfies revision specifications"

\* C7: the candidate fetch sets for a requested name is in every restriction
\* requested for the name, and fetch fails with "Failed to locate" exactly
\* when the package has no version that is in all of them.
C7_CandidateSatisfiesRestrictions ==
    [][Len(lookedUp') = Len(lookedUp) + 1 =>
          LET n == lookedUp'[Len(lookedUp')]
          IN /\ (error' = UnsatisfiableMsg) <=>
                    (/\ versions[n] # <<>>
                     /\ \A i \in 1..Len(versions[n]) : ~Requested(versions[n][i], n))
             /\ error' \notin {NotFoundMsg, UnsatisfiableMsg} =>
                    Requested(candidate'[n], n)]_vars

\* "b" is requested between 1.0 and 2.0, both inclusive, and fetch is done
\* with 1.5 as its candidate, the newest version being 2.5
C7_Witness ==
    /\ request = <<OpxRelPackage("b", Restriction(Some(V(1, 0)), TRUE,
                                                  Some(V(2, 0)), TRUE))>>
    /\ versions["b"][1] = V(2, 5)
    /\ candidate["b"] = V(1, 5)
    /\ pc = "done"

\* C8: a requested name that is not in the cache ends fetch with "Can't
\* find", one with no qualifying version with "Failed to locate"; the names
\* are looked up in the order they are first seen, the failing one is the
\* last looked up, and nothing is given a candidate or marked after it.
C8_ImmediateFailure ==
    /\ [](/\ \E k \in 0..Len(FirstSeen(request, <<>>)) :
                lookedUp = SubSeq(FirstSeen(request, <<>>), 1, k)
          /\ \A i \in 1..Len(lookedUp) :
                LET n == lookedUp[i]
                    none == \A j \in 1..Len(versions[n]) : ~Requested(versions[n][j], n)
                IN /\ versions[n] = <<>> =>
                        (pc = "error" /\ error = NotFoundMsg /\ i = Len(lookedUp))
                   /\ (versions[n] # <<>> /\ none) =>
                        (pc = "error" /\ error = UnsatisfiableMsg /\ i = Len(lookedUp))
          /\ error = NotFoundMsg => versions[lookedUp[Len(lookedUp)]] = <<>>)
    /\ [][error # "" => UNCHANGED <<candidate, marked, lookedUp, fpCalls, markCalls>>]_vars

\* the first of two requested names is not in the cache: the second is
\* never looked up
C8_Witness ==
    /\ error = NotFoundMsg
    /\ Len(lookedUp) = 1
    /\ Len(FirstSeen(request, <<>>)) = 2

\* C9: fix_broken is tried only when every requested name is done, and
\* fetch_archives after that; fetch_archives is called at most once, never
\* after an error, and a run that ends well has called it once with every
\* package marked for install.
C9_RepairThenFetchAll ==
    /\ [](/\ fetchCalls <= 1 /\ repairCalls <= 1
          /\ (repairCalls > 0 \/ fetchCalls > 0) =>
                (idx = Len(reqDepends) /\ lookedUp = FirstSeen(request, <<>>))
          /\ fetchCalls > 0 => error \in {"", "Fetch failed", "Fetch cancelled"}
          /\ pc = "done" =>
                (fetchCalls = 1 /\ error = "" /\ fetched = {n \in Names : marked[n]}))
    /\ [][/\ repairCalls' # repairCalls => fetchCalls = 0
          /\ fetchCalls' # fetchCalls => error = ""]_vars

\* a run that repaired broken packages and fetched two
C9_Witness ==
    /\ pc = "done"
    /\ repairCalls = 1
    /\ Cardinality(fetched) >= 2

(***************************************************************************)
(* The blueprint elements fromElement is checked on.                       *)
(***************************************************************************)
ElementNames ==
    {<<"a", "b">>, <<"a", "+", "b">>, <<"A", "1">>, <<"a">>, <<"-", "a">>}

ElementVersions ==
    {<<"1", ".", "0">>, <<"2", ".", "5", "~", "r", "c">>, <<"1", ",", "5">>,
     <<"1">>, <<"a", "1">>}

\* the six relations of the text form, and two that are none of them
ElementRelations ==
    {<<"<", "<">>, <<"<", "=">>, <<"!", "=">>, <<"=">>, <<">", "=">>,
     <<">", ">">>, <<"<">>, <<"=", "=">>}

Blanks == {<<>>, <<" ">>}

\* name (relation version), with or without blanks around its parts
TextElements ==
    {Element(n \o b1 \o <<"(">> \o b2 \o r \o b2 \o v \o b2 \o <<")">> \o b1,
             NoText, NoText, Written("text", n, r, v)) :
        n \in ElementNames, r \in ElementRelations, v \in ElementVersions,
        b1 \in Blanks, b2 \in Blanks}
    \cup {Element(n \o b1, NoText, NoText, Written("text", n, <<>>, <<>>)) :
             n \in ElementNames, b1 \in Blanks}

\* the version attribute written from one or two versions
Interval(open, lower, upper, close) ==
    <<open>> \o lower \o <<",">> \o upper \o <<close>>

AttributeVersions ==
    {Interval(o, l, u, c) : o \in {"[", "("}, c \in {"]", ")"},
                            l \in ElementVersions \cup {<<>>},
                            u \in ElementVersions \cup {<<>>}}
    \cup {<<"[">> \o v \o <<"]">> : v \in ElementVersions}
    \cup {<<"(">> \o v \o <<")">> : v \in ElementVersions}
    \cup ElementVersions
    \cup {<<>>, NoText}

AttributeElements ==
    {Element(<<>>, n, v, Written("attributes", n, <<>>, v)) :
        n \in ElementNames \cup {NoText}, v \in AttributeVersions}
    \cup {Element(NoText, n, v, Written("attributes", n, <<>>, v)) :
             n \in ElementNames, v \in {<<>>, NoText}}

\* the apt cache is not looked at while a blueprint is parsed
InitNoFetch ==
    /\ versions = [n \in Names |-> IF n \in Pkgs THEN <<V(1, 0)>> ELSE <<>>]
    /\ depends = [p \in Pkgs |-> Uniform(versions[p], <<>>)]
    /\ provides = [p \in Pkgs |-> {}]
    /\ installedVer = [n \in Names |-> NoVer]
    /\ default_solver = FALSE
    /\ request = <<>>
    /\ InitRun

\* what the resolver keeps while it runs
fetchState == <<candidate, marked, pc, reqDepends, idx, stack, error, fpCalls,
                depReads, markCalls, lookedUp, repairCalls, fetchCalls, fetched,
                lastPick>>

InitParse ==
    /\ InitNoFetch
    /\ InitNoAssembly
    /\ elem \in TextElements \cup AttributeElements
    /\ parsed = NotParsed
    /\ debian = NoClauses
    /\ shown = NotShown
    /\ reparsed = NotParsed

\* fromElement, lines 223-272: `if elem.text:`
FromElementOfText ==
    /\ parsed = NotParsed
    /\ elem.text # NoText /\ elem.text # <<>>
    /\ parsed' = FromElementText(elem.text)
    /\ UNCHANGED <<index, fetchState, assembly, elem, debian, shown, reparsed>>

\* fromElement, lines 274-308: the element has no text
FromElementOfAttributes ==
    /\ parsed = NotParsed
    /\ elem # NoElem
    /\ elem.text = NoText \/ elem.text = <<>>
    /\ parsed' = FromElementAttributes(elem.name, elem.version)
    /\ UNCHANGED <<index, fetchState, assembly, elem, debian, shown, reparsed>>

\* package.toDebian() of a parsed package, as add_packages calls it
ToDebianResult(pkg) ==
    LET cs == ToDebian(pkg)
    IN IF \E i \in 1..Len(cs) : cs[i].op = "TypeError"
       THEN [status |-> "TypeError", list |-> <<>>]
       ELSE [status |-> "ok", list |-> cs]

ToDebianOfParsed ==
    /\ parsed.status = "ok"
    /\ debian = NoClauses
    /\ debian' = ToDebianResult(parsed.pkg)
    /\ UNCHANGED <<index, fetchState, assembly, elem, parsed, shown, reparsed>>

\* str(self.restriction) of a parsed package, as toElement calls it
StrOfParsed ==
    /\ parsed.status = "ok"
    /\ ~parsed.pkg.restriction.none
    /\ shown = NotShown
    /\ shown' = StrOfRestriction(parsed.pkg.restriction)
    /\ UNCHANGED <<index, fetchState, assembly, elem, parsed, debian, reparsed>>

\* fromElement of the element toElement makes: the name and the text of
\* str() as its attributes
FromElementOfStr ==
    /\ shown.status = "ok"
    /\ reparsed = NotParsed
    /\ reparsed' = FromElementAttributes(parsed.pkg.name, shown.text)
    /\ UNCHANGED <<index, fetchState, assembly, elem, parsed, debian, shown>>

NextParse ==
    \/ FromElementOfText
    \/ FromElementOfAttributes
    \/ ToDebianOfParsed
    \/ StrOfParsed
    \/ FromElementOfStr

SpecParse == InitParse /\ [][NextParse]_vars

\* the element was written as the text form `name (relation version)` of
\* a name and a version the expression of line 224 takes
WrittenAs(relation) ==
    /\ elem.written.form = "text"
    /\ elem.written.relation = relation
    /\ Len(elem.written.name) >= 2
    /\ elem.written.name[1] \in NameFirst
    /\ \A i \in 2..Len(elem.written.name) : elem.written.name[i] \in NameRest
    /\ IsVersion(elem.written.version)

\* C10: a text `name (= v)` parses to the restriction [v, v] with both
\* bounds inclusive, and a text `name (!= v)` parses to the restriction
\* (v, v) with both bounds exclusive
C10_EqualityParses ==
    \A eq \in BOOLEAN :
      (/\ WrittenAs(IF eq THEN <<"=">> ELSE <<"!", "=">>)
       /\ parsed # NotParsed)
      => /\ parsed.status = "ok"
         /\ parsed.pkg.name = elem.written.name
         /\ parsed.pkg.restriction =
               Restriction(Some(elem.written.version), eq,
                           Some(elem.written.version), eq)

\* [a-zA-Z0-9][a-zA-Z0-9+-.]+ matches the whole of n
IsName(n) ==
    /\ Len(n) >= 2
    /\ n[1] \in NameFirst
    /\ \A i \in 2..Len(n) : n[i] \in NameRest

\* the six relations of the text form and how toDebian writes them
TextRelations ==
    {<<"<", "<">>, <<"<", "=">>, <<"=">>, <<"!", "=">>, <<">", "=">>, <<">", ">">>}

RelationWord(relation) ==
    CASE relation = <<"<", "<">> -> "<<"
      [] relation = <<"<", "=">> -> "<="
      [] relation = <<"=">> -> "="
      [] relation = <<"!", "=">> -> "!="
      [] relation = <<">", "=">> -> ">="
      [] relation = <<">", ">">> -> ">>"

\* the version attribute that says what `(relation v)` says in a text
AttributeForm(relation, v) ==
    CASE relation = <<"<", "<">> -> <<"(", ",">> \o v \o <<")">>
      [] relation = <<"<", "=">> -> <<"(", ",">> \o v \o <<"]">>
      [] relation = <<"=">> -> <<"[">> \o v \o <<"]">>
      [] relation = <<"!", "=">> -> <<"(">> \o v \o <<")">>
      [] relation = <<">", "=">> -> <<"[">> \o v \o <<",", ")">>
      [] relation = <<">", ">">> -> <<"(">> \o v \o <<",", ")">>

\* C11: a text `name (relation v)` parses to the package the attributes
\* name and the interval form of (relation v) parse to, and toDebian of it
\* is the one clause name(relation v)
C11_NotationsAgree ==
    \A relation \in TextRelations :
      (WrittenAs(relation) /\ parsed # NotParsed)
      => /\ parsed.status = "ok"
         /\ parsed = FromElementAttributes(
                         elem.written.name,
                         AttributeForm(relation, elem.written.version))
         /\ debian # NoClauses
              => debian = [status |-> "ok",
                           list |-> << [name |-> elem.written.name,
                                        op |-> RelationWord(relation),
                                        ver |-> Some(elem.written.version)] >>]

\* C12: str() of a restriction parsed from a version attribute returns a
\* text, and the text parses to a restriction with the same bounds and
\* the same inclusive flags
C12_StrRoundTrip ==
    (/\ elem.written.form = "attributes"
     /\ parsed.status = "ok"
     /\ ~parsed.pkg.restriction.none)
    => /\ shown # NotShown => shown.status = "ok"
       /\ reparsed # NotParsed
            => /\ reparsed.status = "ok"
               /\ reparsed.pkg.restriction = parsed.pkg.restriction

\* C13: a restriction fromElement makes has a lower or an upper bound
C13_AtLeastOneBound ==
    (parsed.status = "ok" /\ ~parsed.pkg.restriction.none)
    => \/ parsed.pkg.restriction.lower_bound # None
       \/ parsed.pkg.restriction.upper_bound # None

\* C14: the name of a package fromElement makes matches
\* [A-Za-z0-9][A-Za-z0-9+-.]+, and an element with attributes whose name
\* is missing or does not match raises ValueError
C14_NameWellFormed ==
    /\ parsed.status = "ok" => IsName(parsed.pkg.name)
    /\ (/\ parsed # NotParsed
        /\ elem.written.form = "attributes"
        /\ ~IsName(elem.name))
       => parsed.status = "ValueError"

\* the clauses the bounds of a restriction ask for, lower bound first
ClausesOfBounds(name, r) ==
    (IF r.lower_bound # None
     THEN << [name |-> name, ver |-> r.lower_bound,
              op |-> IF r.lower_bound_inclusive THEN ">=" ELSE ">>"] >>
     ELSE <<>>)
    \o
    (IF r.upper_bound # None
     THEN << [name |-> name, ver |-> r.upper_bound,
              op |-> IF r.upper_bound_inclusive THEN "<=" ELSE "<<"] >>
     ELSE <<>>)

\* C15: toDebian returns the name alone for a package without restriction,
\* name(=v) for [v, v] with both bounds inclusive, name(!=v) for (v, v) with
\* both bounds exclusive, and else a clause for every bound that is set
C15_ToDebianClauses ==
    debian # NoClauses
    => LET r == parsed.pkg.restriction
           name == parsed.pkg.name
           same == r.lower_bound # None /\ r.lower_bound = r.upper_bound
       IN /\ debian.status = "ok"
          /\ debian.list =
               IF r.none THEN << [name |-> name, op |-> "", ver |-> None] >>
               ELSE IF same /\ r.lower_bound_inclusive /\ r.upper_bound_inclusive
               THEN << [name |-> name, op |-> "=", ver |-> r.lower_bound] >>
               ELSE IF same /\ ~r.lower_bound_inclusive /\ ~r.upper_bound_inclusive
               THEN << [name |-> name, op |-> "!=", ver |-> r.lower_bound] >>
               ELSE ClausesOfBounds(name, r)

(***************************************************************************)
(* Loading the blueprint: OpxRelBlueprint.load_xml and fromElement.        *)
(***************************************************************************)
\* OpxRelPackage.fromElement of a package element
ParseElement(e) ==
    IF e.text # NoText /\ e.text # <<>>
    THEN FromElementText(e.text)
    ELSE FromElementAttributes(e.name, e.version)

\* OpxRelPackageList.fromElement
PackageListFromElement(ld) ==
    [packages |-> [i \in 1..Len(ld.elements) |-> ParseElement(ld.elements[i]).pkg],
     no_package_filter |-> ld.no_package_filter]

\* OpxRelPackageSet.fromElement
PackageSetFromElement(sd) ==
    [default_solver |-> sd.default_solver,
     package_sources |-> sd.package_sources,
     package_lists |-> [i \in 1..Len(sd.package_lists) |->
                          PackageListFromElement(sd.package_lists[i])]]

\* the exception of the first package element of the lists that does not
\* parse, "" when all parse
RECURSIVE FirstFailure(_)
FirstFailure(elements) ==
    IF elements = <<>> THEN ""
    ELSE IF ParseElement(Head(elements)).status # "ok"
    THEN ParseElement(Head(elements)).status
    ELSE FirstFailure(Tail(elements))

\* the package elements of package lists, of package sets, in their order
RECURSIVE ElementsOfLists(_)
ElementsOfLists(lists) ==
    IF lists = <<>> THEN <<>>
    ELSE Head(lists).elements \o ElementsOfLists(Tail(lists))

RECURSIVE ElementsOfSets(_)
ElementsOfSets(sets) ==
    IF sets = <<>> THEN <<>>
    ELSE ElementsOfLists(Head(sets).package_lists) \o ElementsOfSets(Tail(sets))

\* 'copy:/mnt' in s.url or 'opx-apt' in s.url
LocalMirror(url) == url \in {"copy:/mnt/opx-apt-local", "http://deb.openswitch.net/opx-apt"}

\* the distribution of every source is rewritten, whatever its url
SetDistribution_All(sets, dist) ==
    [i \in 1..Len(sets) |->
       [sets[i] EXCEPT !.package_sources =
          [j \in 1..Len(sets[i].package_sources) |->
             [sets[i].package_sources[j] EXCEPT !.distribution = dist]]]]

\* fromElement, lines 627-630
SetDistribution(sets, dist) ==
    [i \in 1..Len(sets) |->
       [sets[i] EXCEPT !.package_sources =
          [j \in 1..Len(sets[i].package_sources) |->
             IF LocalMirror(sets[i].package_sources[j].url)
             THEN [sets[i].package_sources[j] EXCEPT !.distribution = dist]
             ELSE sets[i].package_sources[j]]]]

\* fromElement, lines 618-621: RELEASE_MAPPING[dist], or dist
ReleaseVersion(dist) ==
    CASE dist = "oldstable" -> "2.0"
      [] dist = "stable" -> "2.1"
      [] dist = "testing" -> "2.2"
      [] dist = "unstable" -> "2.2-dev"
      [] OTHER -> dist

\* what fromElement hands to OpxRelBlueprint.__init__
BlueprintFromElement(d) ==
    [loaded |-> TRUE,
     package_sets |-> SetDistribution(
                         [i \in 1..Len(d.package_sets) |->
                            PackageSetFromElement(d.package_sets[i])],
                         d.dist),
     output_format |-> [d.output_format EXCEPT !.version = ReleaseVersion(d.dist)]]

\* validate lets everything through
Validate_Nothing(output_format) == TRUE

\* OpxRelBlueprint.validate: FALSE when it calls sys.exit(1)
Validate(output_format) ==
    ~(output_format.ONIE_pkg /\ output_format.ONIE_image)

\* a call of main and how it ended
Call(name, set, ok) == [call |-> name, set |-> set, ok |-> ok]

\* the exception leaves main
Ends(name, set, exception) ==
    /\ raised' = exception
    /\ step' = "raised"
    /\ log' = Append(log, Call(name, set, FALSE))

\* the call returns and main goes on to the next statement
Returns(name, set, next) ==
    /\ step' = next
    /\ log' = Append(log, Call(name, set, TRUE))
    /\ UNCHANGED raised

\* main, lines 1354-1355
LoadXml ==
    /\ step = "load_xml"
    /\ LET failure == FirstFailure(ElementsOfSets(doc.package_sets))
           made == BlueprintFromElement(doc)
       IN IF failure # ""
          THEN Ends("load_xml", 0, failure) /\ UNCHANGED blueprint
          ELSE IF ~Validate(made.output_format)
          THEN Ends("load_xml", 0, "SystemExit") /\ UNCHANGED blueprint
          ELSE Returns("load_xml", 0, "OpxRelPackageAssembler") /\ blueprint' = made
    /\ UNCHANGED <<index, fetchState, parser, doc, files, rootfs, archives, setsDone, missing>>

\* a statement of main that reads the blueprint and works on the rootfs
\* and the file system: it returns, or its exception leaves main
Statement(name, next, exception) ==
    /\ step = name
    /\ \/ Returns(name, 0, next)
       \/ Ends(name, 0, exception)
    /\ UNCHANGED <<index, fetchState, parser, doc, files, blueprint, rootfs, archives,
                   setsDone, missing>>

\* the lines of a sources.list, one for every package source
SourcesLines(pkg_sources) ==
    [i \in 1..Len(pkg_sources) |->
       <<"deb [arch=amd64]", pkg_sources[i].url, pkg_sources[i].distribution>>]

\* the sources.list of the distribution the rootfs was made from, and one
\* an earlier run left behind
DistroSources == <<<<"deb", "http://deb.debian.org/debian", "stretch">>>>
StaleSources == <<<<"deb", "http://deb.debian.org/debian", "jessie">>>>

\* etc/apt/sources.list and sources.list.save of the rootfs that is unpacked
SysrootFiles ==
    { <<Some(DistroSources), None>>, <<None, None>>,
      <<Some(DistroSources), Some(StaleSources)>> }

\* main, line 1360: the constructor unpacks the rootfs
NewAssembler ==
    /\ step = "OpxRelPackageAssembler"
    /\ \/ /\ Returns("OpxRelPackageAssembler", 0, "update_rootfs")
          /\ \E f \in SysrootFiles : sources_list' = f[1] /\ sources_save' = f[2]
       \/ /\ Ends("OpxRelPackageAssembler", 0, "OpxrootfsError")
          /\ UNCHANGED <<sources_list, sources_save>>
    /\ UNCHANGED <<index, fetchState, parser, doc, outputs, blueprint, rootfs, archives,
                   setsDone, missing>>

\* main, line 1361
UpdateRootfs == Statement("update_rootfs", "filter_packages", "OpxrootfsError")

(***************************************************************************)
(* OpxRelPackageAssembler: filter_packages, add_packages, verify_packages. *)
(***************************************************************************)
\* the filter leaves out the test of no_package_filter
FilterList_NoFlag(packages, no_package_filter, rootfs_package_list) ==
    SelectSeq(packages, LAMBDA package : package.name \notin rootfs_package_list)

\* filter_packages, lines 915-917: the list comprehension
RECURSIVE FilterList(_, _, _)
FilterList(packages, no_package_filter, rootfs_package_list) ==
    IF packages = <<>> THEN <<>>
    ELSE (IF no_package_filter \/ Head(packages).name \notin rootfs_package_list
          THEN <<Head(packages)>> ELSE <<>>)
         \o FilterList(Tail(packages), no_package_filter, rootfs_package_list)

\* filter_packages, lines 912-917: every list of every set
FilterSets(sets, rootfs_package_list) ==
    [i \in 1..Len(sets) |->
       [sets[i] EXCEPT !.package_lists =
          [j \in 1..Len(sets[i].package_lists) |->
             [sets[i].package_lists[j] EXCEPT !.packages =
                FilterList(@, sets[i].package_lists[j].no_package_filter,
                           rootfs_package_list)]]]]

\* main, line 1362: installed_packages() raises when apt list fails
FilterPackages ==
    /\ step = "filter_packages"
    /\ \/ /\ Returns("filter_packages", 0, "index_local_packages")
          /\ blueprint' = [blueprint EXCEPT !.package_sets = FilterSets(@, rootfs)]
       \/ /\ Ends("filter_packages", 0, "OpxrootfsError")
          /\ UNCHANGED blueprint
    /\ UNCHANGED <<index, fetchState, parser, doc, files, rootfs, archives, setsDone, missing>>

\* main, line 1363
IndexLocalPackages ==
    Statement("index_local_packages", "add_packages", "CalledProcessError")

\* the packages of the lists of a package set, in their order
RECURSIVE PackagesOfLists(_)
PackagesOfLists(lists) ==
    IF lists = <<>> THEN <<>>
    ELSE Head(lists).packages \o PackagesOfLists(Tail(lists))

\* the names a fetch may leave as .deb files in the archives
ArchiveNames == {<<"a", "b">>, <<"c", "a">>, <<"b", "a">>}

\* a failed fetch of a package set is taken as done
AddPackagesSet_Swallowed ==
    /\ step = "add_packages"
    /\ setsDone < Len(blueprint.package_sets)
    /\ setsDone' = setsDone + 1
    /\ log' = Append(log, Call("fetch", setsDone + 1, FALSE))
    /\ UNCHANGED <<index, fetchState, parser, doc, files, blueprint, rootfs, archives,
                   missing, step, raised>>

\* close leaves sources.list as the session wrote it
Close_NoRestore(list, save) == [sources_list |-> list, sources_save |-> save]

\* OpxPackages.__init__, lines 186-201: sources.list is copied to
\* sources.list.save if it exists, and written anew for pkg_sources
OpxPackagesInit(list, save, pkg_sources) ==
    [sources_list |-> Some(SourcesLines(pkg_sources)),
     sources_save |-> IF list # None THEN list ELSE save]

\* OpxPackages.close, lines 225-231: sources.list.save, if it exists, is
\* copied over sources.list
Close(list, save) ==
    [sources_list |-> IF save # None THEN save ELSE list, sources_save |-> save]

\* the session `with OpxPackages(...) as packer`: __init__, then the body,
\* then __exit__, which calls close
Session(pkg_sources) ==
    LET opened == OpxPackagesInit(sources_list, sources_save, pkg_sources)
    IN Close(opened.sources_list, opened.sources_save)

\* add_packages, lines 940-965, for the next package set: toDebian of its
\* packages, then the OpxPackages session: the constructor raises when the
\* apt cache cannot be opened, and fetch raises OpxPackagesError or leaves
\* the archives of the packages it marked
AddPackagesSet ==
    /\ step = "add_packages"
    /\ setsDone < Len(blueprint.package_sets)
    /\ LET pks == blueprint.package_sets[setsDone + 1]
           deb_package_list == DebPackageList(PackagesOfLists(pks.package_lists))
           opened == OpxPackagesInit(sources_list, sources_save, pks.package_sources)
           closed == Session(pks.package_sources)
       IN IF \E i \in 1..Len(deb_package_list) : deb_package_list[i].op = "TypeError"
          THEN /\ Ends("toDebian", setsDone + 1, "TypeError")
               /\ UNCHANGED <<archives, setsDone, sources_list, sources_save>>
          ELSE \/ /\ Ends("OpxPackages", setsDone + 1, "SystemError")
                  /\ sources_list' = opened.sources_list
                  /\ sources_save' = opened.sources_save
                  /\ UNCHANGED <<archives, setsDone>>
               \/ /\ Ends("fetch", setsDone + 1, "OpxPackagesError")
                  /\ sources_list' = closed.sources_list
                  /\ sources_save' = closed.sources_save
                  /\ UNCHANGED <<archives, setsDone>>
               \/ /\ \E fetched_names \in SUBSET ArchiveNames :
                       /\ deb_package_list = <<>> => fetched_names = {}
                       /\ archives' = archives \cup fetched_names
                  /\ sources_list' = closed.sources_list
                  /\ sources_save' = closed.sources_save
                  /\ setsDone' = setsDone + 1
                  /\ log' = Append(log, Call("fetch", setsDone + 1, TRUE))
                  /\ UNCHANGED <<step, raised>>
    /\ UNCHANGED <<index, fetchState, parser, doc, outputs, blueprint, rootfs, missing>>

\* add_packages returns when its loop has done every package set
AddPackagesReturns ==
    /\ step = "add_packages"
    /\ setsDone = Len(blueprint.package_sets)
    /\ Returns("add_packages", 0, "verify_packages")
    /\ UNCHANGED <<index, fetchState, parser, doc, files, blueprint, rootfs, archives,
                   setsDone, missing>>

\* verify_packages, lines 981-985: the set of the names of the blueprint
RECURSIVE NamesOfSets(_)
NamesOfSets(sets) ==
    IF sets = <<>> THEN {}
    ELSE LET packages == PackagesOfLists(Head(sets).package_lists)
         IN {packages[i].name : i \in 1..Len(packages)} \cup NamesOfSets(Tail(sets))

\* the test of line 1003 asks the other way round
VerifyOk_Subset(deb_package_list, rootfs_package_list) ==
    rootfs_package_list \subseteq deb_package_list

\* verify_packages, line 1003: rootfs_package_list.issuperset(deb_package_list)
VerifyOk(deb_package_list, rootfs_package_list) ==
    \A name \in deb_package_list : name \in rootfs_package_list

\* main, line 1365
VerifyPackages ==
    /\ step = "verify_packages"
    /\ LET deb_package_list == NamesOfSets(blueprint.package_sets)
       IN IF VerifyOk(deb_package_list, archives)
          THEN /\ Returns("verify_packages", 0, "install_packages")
               /\ UNCHANGED missing
          ELSE /\ Ends("verify_packages", 0, "ValueError")
               /\ missing' = deb_package_list \ archives
    /\ UNCHANGED <<index, fetchState, parser, doc, files, blueprint, rootfs, archives, setsDone>>

\* main, lines 1366-1368
InstallPackages == Statement("install_packages", "copy_inst_hooks", "OpxrootfsError")

CopyInstHooks == Statement("copy_inst_hooks", "make_output", "CalledProcessError")

\* a call inside make_output and how it ended
Out(call, path, ok) == [call |-> call, path |-> path, ok |-> ok]

\* a way a part of make_output can go: the calls it makes, the exception
\* that leaves it, and whether the apt state of the rootfs has been cleaned
Run(calls, exception, cleaned) ==
    [calls |-> calls, raised |-> exception, cleaned |-> cleaned]

\* the parts of make_output one after the other: an exception ends it
Then(first, second) ==
    {IF r.raised # "" THEN r
     ELSE Run(r.calls \o t.calls, t.raised, r.cleaned \/ t.cleaned) :
        r \in first, t \in second}

\* lines 1140-1156: the package cache archive, if there are .deb files
PackageCacheRuns(output_format, flist) ==
    IF flist # {} /\ output_format.package_cache
    THEN { Run(<<Out("tar_out", "pkg_cache", TRUE),
                 Out("add_artifact", "pkg_cache", TRUE)>>, "", FALSE),
           Run(<<Out("tar_out", "pkg_cache", FALSE)>>, "OpxrootfsError", FALSE) }
    ELSE { Run(<<>>, "", FALSE) }

\* lines 1160-1233: the .deb files are removed, or installer.list is
\* written for the ONIE package installer; then sources.list,
\* sources.list.save and the files of /tmp are removed
CleanRuns(output_format) ==
    IF output_format.ONIE_pkg
    THEN { Run(<<>>, "", TRUE), Run(<<>>, "IOError", FALSE) }
    ELSE { Run(<<>>, "", TRUE) }

\* tar_out(rootfs_path) is called until it returns, however often it fails
TarOutRootfs_Thrice ==
    { <<TRUE>>, <<FALSE, TRUE>>, <<FALSE, FALSE, TRUE>>, <<FALSE, FALSE, FALSE>> }

\* lines 1245-1256: how the calls of tar_out(rootfs_path) can end, the
\* second being in the except clause of the first
TarOutRootfs == { <<TRUE>>, <<FALSE, TRUE>>, <<FALSE, FALSE>> }

\* lines 1237-1256: the rootfs archive
RootfsRuns(output_format) ==
    IF output_format.ONIE_image \/ output_format.ONIE_pkg \/ output_format.tar_archive
    THEN { Run([i \in 1..Len(oks) |-> Out("tar_out", "rootfs", oks[i])],
               IF oks[Len(oks)] THEN "" ELSE "OpxrootfsError", FALSE) :
              oks \in TarOutRootfs }
    ELSE { Run(<<>>, "", FALSE) }

\* lines 1262-1282: the ONIE installer image
ImageRuns(output_format) ==
    IF output_format.ONIE_image \/ output_format.ONIE_pkg
    THEN { Run(<<Out("onie-mk-opx.sh", "image", TRUE),
                 Out("add_artifact", "image", TRUE)>>, "", FALSE),
           Run(<<Out("onie-mk-opx.sh", "image", FALSE)>>, "CalledProcessError", FALSE) }
    ELSE { Run(<<>>, "", FALSE) }

\* lines 1284-1285
ArtifactRuns(output_format) ==
    IF output_format.tar_archive
    THEN { Run(<<Out("add_artifact", "rootfs", TRUE)>>, "", FALSE) }
    ELSE { Run(<<>>, "", FALSE) }

\* make_output, lines 1109-1290
MakeOutputRuns(output_format, flist) ==
    Then(Then(Then(Then(PackageCacheRuns(output_format, flist),
                        CleanRuns(output_format)),
                   RootfsRuns(output_format)),
              ImageRuns(output_format)),
         ArtifactRuns(output_format))

\* main, line 1368
MakeOutput ==
    /\ step = "make_output"
    /\ \E run \in MakeOutputRuns(blueprint.output_format, archives) :
          /\ outputs' = run.calls
          /\ IF run.cleaned
             THEN /\ sources_list' = None
                  /\ sources_save' = None
                  /\ archives' = IF blueprint.output_format.ONIE_pkg THEN archives ELSE {}
             ELSE UNCHANGED <<sources_list, sources_save, archives>>
          /\ IF run.raised = ""
             THEN Returns("make_output", 0, "done")
             ELSE Ends("make_output", 0, run.raised)
    /\ UNCHANGED <<index, fetchState, parser, doc, blueprint, rootfs, setsDone, missing>>

(***************************************************************************)
(* The blueprint documents and root file systems main is checked on.       *)
(***************************************************************************)
\* the most package sets of a blueprint
MaxSets == 2

PkgAb == <<"a", "b">>
PkgCa == <<"c", "a">>

\* <package name="ab"/>
ElemAb == Element(NoText, PkgAb, NoText, Written("attributes", PkgAb, <<>>, NoText))

\* <package>ca (>= 1.0)</package>
ElemCa ==
    Element(PkgCa \o <<" ", "(", ">", "=", " ", "1", ".", "0", ")">>, NoText, NoText,
            Written("text", PkgCa, <<">", "=">>, <<"1", ".", "0">>))

\* <package>ab (= 1.0)</package>
ElemEquals ==
    Element(PkgAb \o <<" ", "(", "=", " ", "1", ".", "0", ")">>, NoText, NoText,
            Written("text", PkgAb, <<"=">>, <<"1", ".", "0">>))

\* <package name="ab" version="[,]"/>
ElemNoBound ==
    Element(NoText, PkgAb, <<"[", ",", "]">>,
            Written("attributes", PkgAb, <<>>, <<"[", ",", "]">>))

\* <package>-a</package>
ElemNoName == Element(<<"-", "a">>, NoText, NoText, Written("text", <<"-", "a">>, <<>>, <<>>))

PackageListDoc(elements, no_package_filter) ==
    [elements |-> elements, no_package_filter |-> no_package_filter]

PackageListDocs ==
    {PackageListDoc(es, f) : es \in {<<ElemAb>>, <<ElemAb, ElemCa>>, <<ElemCa, ElemAb>>},
                             f \in BOOLEAN}
    \cup {PackageListDoc(<<e>>, FALSE) : e \in {ElemEquals, ElemNoBound, ElemNoName}}

\* OpxPackageSource(url, distribution, component)
PackageSource(url, distribution) == [url |-> url, distribution |-> distribution]

PackageSources ==
    << PackageSource("copy:/mnt/opx-apt-local", "jessie"),
       PackageSource("http://deb.openswitch.net/opx-apt", "unstable"),
       PackageSource("http://deb.debian.org/debian", "jessie") >>

PackageSetDoc(lists, solver) ==
    [package_sources |-> PackageSources, package_lists |-> lists,
     default_solver |-> solver]

PackageSetDocs ==
    {PackageSetDoc(<<l>>, FALSE) : l \in PackageListDocs}
    \cup {PackageSetDoc(<<PackageListDoc(<<ElemAb, ElemCa>>, FALSE),
                          PackageListDoc(<<ElemCa, ElemAb>>, TRUE)>>, TRUE)}

\* the output_format element: nothing asked for, an ONIE image, ONIE
\* packages with the package cache, both ONIE outputs, a tar archive, and
\* an ONIE image with the tar archive and the package cache
OutputFormat(tar, image, pkg, cache) ==
    [version |-> "1.0", tar_archive |-> tar, ONIE_image |-> image, ONIE_pkg |-> pkg,
     package_cache |-> cache]

OutputFormats ==
    { OutputFormat(FALSE, FALSE, FALSE, FALSE), OutputFormat(FALSE, TRUE, FALSE, FALSE),
      OutputFormat(FALSE, FALSE, TRUE, TRUE), OutputFormat(FALSE, TRUE, TRUE, FALSE),
      OutputFormat(TRUE, FALSE, FALSE, FALSE), OutputFormat(TRUE, TRUE, FALSE, TRUE) }

\* the document and main's argument --dist
Docs ==
    {[package_sets |-> sets, output_format |-> output_format, dist |-> dist] :
        sets \in UNION {[1..n -> PackageSetDocs] : n \in 1..MaxSets},
        output_format \in OutputFormats, dist \in {"stable", "2.2"}}

InitAsm ==
    /\ InitNoFetch
    /\ InitNoElement
    /\ doc \in Docs
    /\ blueprint = NoBlueprint
    /\ step = "load_xml"
    /\ raised = ""
    /\ rootfs \in SUBSET {PkgAb, PkgCa}
    /\ archives = {}
    /\ setsDone = 0
    /\ missing = {}
    /\ log = <<>>
    /\ outputs = <<>>
    /\ sources_list = None
    /\ sources_save = None

NextAsm ==
    \/ LoadXml
    \/ NewAssembler
    \/ UpdateRootfs
    \/ FilterPackages
    \/ IndexLocalPackages
    \/ AddPackagesSet
    \/ AddPackagesReturns
    \/ VerifyPackages
    \/ InstallPackages
    \/ CopyInstHooks
    \/ MakeOutput

SpecAsm == InitAsm /\ [][NextAsm]_vars

(***************************************************************************)
(* Properties of the release assembly.                                     *)
(***************************************************************************)
\* new holds exactly the packages of old whose name is not installed,
\* in the order they have in old
KeepsNotInstalled(old, new, installed) ==
    LET keep == {i \in 1..Len(old) : old[i].name \notin installed}
    IN /\ Len(new) = Cardinality(keep)
       /\ \A i \in keep : new[Cardinality({j \in keep : j <= i})] = old[i]

\* filter_packages has returned in this step
FilterReturned == step = "filter_packages" /\ step' = "index_local_packages"

\* C16: filter_packages leaves in every package list without
\* no_package_filter exactly the packages whose name is not installed in
\* the rootfs, in their original order, and leaves every list with
\* no_package_filter as it was, installed names included.
C16_FilterInstalled ==
    [][FilterReturned =>
         /\ Len(blueprint'.package_sets) = Len(blueprint.package_sets)
         /\ \A i \in 1..Len(blueprint.package_sets) :
              LET old == blueprint.package_sets[i].package_lists
                  new == blueprint'.package_sets[i].package_lists
              IN /\ Len(new) = Len(old)
                 /\ \A j \in 1..Len(old) :
                      /\ new[j].no_package_filter = old[j].no_package_filter
                      /\ IF old[j].no_package_filter
                         THEN new[j].packages = old[j].packages
                         ELSE KeepsNotInstalled(old[j].packages, new[j].packages,
                                                rootfs)]_vars

\* filter_packages returned; a list without no_package_filter lost an
\* installed package and kept another, and a list with no_package_filter
\* still holds an installed package
C16_Witness ==
    /\ step = "index_local_packages"
    /\ \E i \in 1..Len(blueprint.package_sets) :
         \E j \in 1..Len(blueprint.package_sets[i].package_lists) :
           LET made == blueprint.package_sets[i].package_lists[j]
               given == doc.package_sets[i].package_lists[j]
           IN /\ ~made.no_package_filter
              /\ Len(made.packages) >= 1
              /\ Len(made.packages) < Len(given.elements)
    /\ \E i \in 1..Len(blueprint.package_sets) :
         \E j \in 1..Len(blueprint.package_sets[i].package_lists) :
           LET made == blueprint.package_sets[i].package_lists[j]
           IN /\ made.no_package_filter
              /\ \E k \in 1..Len(made.packages) : made.packages[k].name \in rootfs

\* the names of the packages of the package lists of the blueprint
RequestedNames ==
    UNION {UNION {{pkg_list.packages[k].name : k \in 1..Len(pkg_list.packages)} :
                    pkg_list \in {pks.package_lists[j] : j \in 1..Len(pks.package_lists)}} :
             pks \in {blueprint.package_sets[i] : i \in 1..Len(blueprint.package_sets)}}

\* C17: verify_packages succeeds if and only if the names of the fetched
\* archives are a superset of the names in the package lists of the
\* blueprint; when it fails it raises ValueError and the missing set it
\* reports is the requested names minus the fetched names.
C17_VerifyResolved ==
    [][step = "verify_packages" =>
         /\ step' \in {"install_packages", "raised"}
         /\ step' = "install_packages" <=> RequestedNames \subseteq archives
         /\ step' = "raised" =>
              /\ raised' = "ValueError"
              /\ missing' = RequestedNames \ archives]_vars

\* verify_packages failed with some of the requested names fetched and
\* some not
C17_Witness ==
    /\ raised = "ValueError"
    /\ missing # {}
    /\ RequestedNames \cap archives # {}
    /\ missing # RequestedNames

\* every package element of the document parses
DocParses == FirstFailure(ElementsOfSets(doc.package_sets)) = ""

\* the document sets both ONIE outputs
BothONIE == doc.output_format.ONIE_image /\ doc.output_format.ONIE_pkg

\* a package set has been fetched, or its fetch has been tried
SomeFetch ==
    \/ setsDone > 0
    \/ archives # {}
    \/ \E i \in 1..Len(log) : log[i].call \in {"toDebian", "fetch"}

\* C18: the construction of a blueprint whose output_format has ONIE_image
\* and ONIE_pkg both true fails (sys.exit) and no package set is fetched
\* before or after it; with every other value of the two flags the
\* blueprint is constructed.
C18_BothFlagsRejected ==
    (step # "load_xml" /\ DocParses) =>
        IF BothONIE
        THEN /\ raised = "SystemExit"
             /\ step = "raised"
             /\ ~blueprint.loaded
             /\ log = <<Call("load_xml", 0, FALSE)>>
             /\ ~SomeFetch
        ELSE /\ blueprint.loaded
             /\ log[1] = Call("load_xml", 0, TRUE)
             /\ blueprint.output_format.ONIE_image = doc.output_format.ONIE_image
             /\ blueprint.output_format.ONIE_pkg = doc.output_format.ONIE_pkg

\* the load of a document with both ONIE outputs has ended
C18_Witness == DocParses /\ BothONIE /\ raised = "SystemExit"

\* the calls of the log before place i that fetched a package set
FetchedBefore(i) == {j \in 1..(i - 1) : log[j] = Call("fetch", log[j].set, TRUE)}

\* C19: main fails closed. The package sets are fetched in the order of
\* the blueprint; after a call that failed nothing else is called, so no
\* later package set is fetched and verify, install and output do not
\* run; verify runs only when every package set was fetched, and install
\* and output run only after verify succeeded.
C19_FailsClosed ==
    /\ \A i \in 1..Len(log) :
         /\ ~log[i].ok => i = Len(log) /\ step = "raised" /\ raised # ""
         /\ log[i].call \in {"toDebian", "fetch"} =>
              log[i].set = Cardinality(FetchedBefore(i)) + 1
         /\ log[i].call = "verify_packages" =>
              Cardinality(FetchedBefore(i)) = Len(blueprint.package_sets)
         /\ log[i].call \in {"install_packages", "copy_inst_hooks", "make_output"} =>
              \E j \in 1..(i - 1) : log[j] = Call("verify_packages", 0, TRUE)
    /\ step \in {"install_packages", "copy_inst_hooks", "make_output", "done"} =>
         \E j \in 1..Len(log) : log[j] = Call("verify_packages", 0, TRUE)
    /\ step = "raised" => ~log[Len(log)].ok

\* the fetch of the second package set failed after the first was fetched
C19_Witness ==
    /\ step = "raised"
    /\ Len(blueprint.package_sets) = 2
    /\ \E i \in 1..Len(log) : log[i] = Call("fetch", 1, TRUE)
    /\ log[Len(log)] = Call("fetch", 2, FALSE)


\* load_xml has returned the blueprint in this step
LoadReturned == ~blueprint.loaded /\ blueprint'.loaded

\* the sources of the loaded blueprint are those of the document, with
\* the distribution of the local mirrors set to the requested one
SourcesAsLoaded(made) ==
    /\ Len(made.package_sets) = Len(doc.package_sets)
    /\ \A i \in 1..Len(doc.package_sets) :
         LET given == doc.package_sets[i].package_sources
             got == made.package_sets[i].package_sources
         IN /\ Len(got) = Len(given)
            /\ \A j \in 1..Len(given) :
                 /\ got[j].url = given[j].url
                 /\ got[j].distribution =
                      IF LocalMirror(given[j].url) THEN doc.dist
                      ELSE given[j].distribution

\* the two blueprints differ at most in the packages of the package lists
\* that do not have no_package_filter
SameButFiltered(old, new) ==
    /\ new.loaded = old.loaded
    /\ new.output_format = old.output_format
    /\ Len(new.package_sets) = Len(old.package_sets)
    /\ \A i \in 1..Len(old.package_sets) :
         LET olds == old.package_sets[i]
             news == new.package_sets[i]
         IN /\ news.default_solver = olds.default_solver
            /\ news.package_sources = olds.package_sources
            /\ Len(news.package_lists) = Len(olds.package_lists)
            /\ \A j \in 1..Len(olds.package_lists) :
                 /\ news.package_lists[j].no_package_filter =
                      olds.package_lists[j].no_package_filter
                 /\ olds.package_lists[j].no_package_filter =>
                      news.package_lists[j].packages = olds.package_lists[j].packages

\* C20 as the specification states it: once loaded, no step changes a
\* field of the blueprint; the load rewrites only the distribution of the
\* sources whose url is a local mirror and keeps everything else, the
\* output format included, as the document gives it.
C20_BlueprintImmutable ==
    [][/\ blueprint.loaded => blueprint' = blueprint
       /\ LoadReturned =>
            /\ SourcesAsLoaded(blueprint')
            /\ blueprint'.output_format = doc.output_format]_vars

\* C20: after the load the blueprint is changed by filter_packages only,
\* and only in the packages of the package lists without
\* no_package_filter; fetch, verify, install and output leave every field
\* as it is. The load sets the distribution of the sources whose url is a
\* local mirror to the requested one, keeps the parsed distribution of
\* the others, and sets the version of the output format from the
\* requested distribution.
C20_OnlyFilterChanges ==
    [][/\ (blueprint.loaded /\ ~FilterReturned) => blueprint' = blueprint
       /\ FilterReturned => SameButFiltered(blueprint, blueprint')
       /\ LoadReturned =>
            /\ SourcesAsLoaded(blueprint')
            /\ blueprint'.output_format.version \in
                 {doc.dist, "2.0", "2.1", "2.2", "2.2-dev"}
            /\ doc.dist = "stable" => blueprint'.output_format.version = "2.1"
            /\ doc.dist = "2.2" => blueprint'.output_format.version = "2.2"
            /\ blueprint'.output_format.ONIE_image = doc.output_format.ONIE_image
            /\ blueprint'.output_format.ONIE_pkg = doc.output_format.ONIE_pkg]_vars

\* the output was made from a blueprint whose package lists
\* filter_packages shortened, whose local mirrors carry the requested
\* distribution and whose other source keeps the parsed one
C20_Witness ==
    /\ step = "done"
    /\ blueprint.package_sets # BlueprintFromElement(doc).package_sets
    /\ \E j \in 1..Len(blueprint.package_sets[1].package_sources) :
         LET got == blueprint.package_sets[1].package_sources[j]
             given == doc.package_sets[1].package_sources[j]
         IN LocalMirror(got.url) /\ got.distribution = doc.dist
            /\ given.distribution # doc.dist
    /\ \E j \in 1..Len(blueprint.package_sets[1].package_sources) :
         LET got == blueprint.package_sets[1].package_sources[j]
         IN ~LocalMirror(got.url) /\ got.distribution # doc.dist

(***************************************************************************)
(* Properties of the choice of versions.                                   *)
(***************************************************************************)
\* fetch has set the candidate of the requested name it looked up last
CandidateSet ==
    /\ Len(lookedUp') = Len(lookedUp) + 1
    /\ error' \notin {NotFoundMsg, UnsatisfiableMsg}

RunState(cand, mk, err) == [candidate |-> cand, marked |-> mk, error |-> err]

\* lines 381-393 on the marks of the run
InstalledIn(mk, cands, backtrace) ==
    \E i \in 1..Len(cands) :
        \/ \E j \in 1..Len(backtrace) : backtrace[j] = cands[i].pkg
        \/ installedVer[cands[i].pkg] # NoVer
        \/ mk[cands[i].pkg]

RECURSIVE RunFetchPackage(_, _, _)
RECURSIVE RunTargets(_, _, _, _, _)

\* lines 348-405: the loop over pkg_versions, names the targets left
RunTargets(pkg, backtrace, pv, names, st) ==
    IF names = <<>> \/ st.error # "" THEN st
    ELSE LET name == Head(names)
             cands == CandidateVersions(pv[name])
         IN IF pv[name] = {}
            THEN [st EXCEPT !.error = "Unable to satisfy dependency"]
            ELSE IF InstalledIn(st.marked, cands, backtrace)
            THEN RunTargets(pkg, backtrace, pv, Tail(names), st)
            ELSE LET v == cands[1]
                     dep_pkg == cands[Len(cands)].pkg
                     set == [st EXCEPT !.candidate[v.pkg] = v.ver]
                 IN RunTargets(pkg, backtrace, pv, Tail(names),
                               RunFetchPackage(dep_pkg, <<pkg>> \o backtrace, set))

\* _fetch_package(pkg, backtrace) when mark_install does not raise
RunFetchPackage(pkg, backtrace, st) ==
    LET groups == depends[pkg][st.candidate[pkg]]
    IN IF st.error # "" THEN st
       ELSE IF OrDepsError(groups)
       THEN [st EXCEPT !.error = "Can't handle or-dependencies"]
       ELSE LET pv == PkgVersions(groups, <<>>)
                done == RunTargets(pkg, backtrace, pv, SortedNames(DOMAIN pv), st)
            IN IF done.error # "" THEN done
               ELSE [done EXCEPT !.marked[pkg] =
                                    (done.candidate[pkg] # installedVer[pkg])]

\* lines 433-479 with the modified solver: the loop over depends
RECURSIVE RunFetch(_, _)
RunFetch(items, st) ==
    IF items = <<>> \/ st.error # "" THEN st
    ELSE LET name == Head(items).name
             clauses == Head(items).clauses
         IN IF versions[name] = <<>>
            THEN [st EXCEPT !.error = NotFoundMsg]
            ELSE IF Qualifying(name, clauses) = {}
            THEN [st EXCEPT !.error = UnsatisfiableMsg]
            ELSE RunFetch(Tail(items),
                          RunFetchPackage(name, <<>>,
                              [st EXCEPT !.candidate[name] = FoundVersion(name, clauses)]))

\* the candidates of a cache that was just opened
DefaultCandidate ==
    [n \in Names |-> IF versions[n] = <<>> THEN NoVer ELSE versions[n][1]]

\* the run of fetch on the request
SortedRun ==
    RunFetch(GroupDepends(DebPackageList(request), <<>>),
             RunState(DefaultCandidate, [n \in Names |-> FALSE], ""))

\* the (package, version) pairs marked for install
MarkedPairs(cand, mk) == {<<n, cand[n]>> : n \in {m \in Names : mk[m]}}

\* C22: for a given index and request the pairs marked for install when
\* fetch has gone through the names are the same in every run, whatever
\* the order in which _fetch_package takes the targets of a package: they
\* are the pairs of the run that takes them in the order of their names.
C22_Deterministic ==
    (~default_solver /\ NamesDone /\ error = "") =>
        /\ SortedRun.error = ""
        /\ MarkedPairs(candidate, marked) =
             MarkedPairs(SortedRun.candidate, SortedRun.marked)

\* the run that takes the targets in the order of their names is a run
SortedRunReached ==
    /\ ~default_solver /\ NamesDone /\ error = ""
    /\ SortedRun.error = ""
    /\ candidate = SortedRun.candidate
    /\ marked = SortedRun.marked
    /\ \E n \in Pkgs : provides[n] = {"c"}
    /\ Cardinality({n \in Names : marked[n]}) = 2

(***************************************************************************)
(* Properties of the recursion of _fetch_package.                          *)
(***************************************************************************)
\* _fetch_package has called itself in this step
Recursed == pc = "fetch_package" /\ Len(stack') = Len(stack) + 1

\* C23: when no candidate of a target is installed, _fetch_package takes
\* the first of candidate_versions, makes it the candidate version of the
\* package it belongs to, and calls itself on that same package with
\* backtrace = [pkg] + backtrace.
C23_RecursesIntoFirstCandidate ==
    [][Recursed =>
          LET top == Head(stack)
              first == CandidateVersions(top.pkg_versions[lastPick'.name])[1]
          IN /\ lastPick'.ver = first
             /\ candidate'[first.pkg] = first.ver
             /\ Head(stack').pkg = first.pkg
             /\ Head(stack').backtrace = <<top.pkg>> \o top.backtrace]_vars

(***************************************************************************)
(* Properties of the or-dependencies.                                      *)
(***************************************************************************)
\* the alternatives of an or-group that are left: the legacy aliases go
\* only when the group has more than one alternative
Remaining(or_deps) ==
    IF Len(or_deps) > 1
    THEN SelectSeq(or_deps, LAMBDA d : d.target \notin {"makedev", "debconf-2.0"})
    ELSE or_deps

\* _fetch_package reads the depends_list of its package in this step
ReadsDepends ==
    /\ pc = "fetch_package"
    /\ Head(stack).phase = "enter"
    /\ depReads' # depReads

\* the call failed on an or-dependency and marked nothing
OrDepsFailed ==
    /\ pc' = "error"
    /\ error' = "Can't handle or-dependencies"
    /\ marked' = marked
    /\ markCalls' = markCalls

\* the call goes on with the one alternative left of every group: the
\* targets it will handle are targets of these alternatives, with versions
\* one of these alternatives accepts
GoesOnWithSingle(groups) ==
    /\ pc' = "fetch_package"
    /\ error' = ""
    /\ Head(stack').phase = "deps"
    /\ \A name \in Head(stack').todo :
          /\ \E i \in 1..Len(groups) : Remaining(groups[i])[1].target = name
          /\ \A x \in Head(stack').pkg_versions[name] :
                \E i \in 1..Len(groups) :
                    /\ Remaining(groups[i])[1].target = name
                    /\ x \in AllTargets(Remaining(groups[i])[1])

\* C24 as the specification states it: the call fails on an or-dependency
\* when more than one alternative is left in a group, and goes on with the
\* single alternative left otherwise.
C24_FailsOnSeveralLeft ==
    [][ReadsDepends =>
          LET groups == DependsList(Head(stack).pkg)
          IN IF \E i \in 1..Len(groups) : Len(Remaining(groups[i])) > 1
             THEN OrDepsFailed
             ELSE GoesOnWithSingle(groups)]_vars

\* C24: legacy aliases are dropped only from or-groups of more than one
\* alternative; the call fails with "Can't handle or-dependencies", and
\* marks nothing, when a group is left with more than one alternative or
\* with none, and goes on with the single alternative left of every group
\* otherwise.
C24_FailsUnlessOneLeft ==
    [][ReadsDepends =>
          LET groups == DependsList(Head(stack).pkg)
          IN IF \E i \in 1..Len(groups) : Len(Remaining(groups[i])) # 1
             THEN OrDepsFailed
             ELSE GoesOnWithSingle(groups)]_vars

\* a package whose dependency "b | makedev" was taken as "b" is marked, and
\* so is b
C24_SingleLeft ==
    /\ pc = "done"
    /\ marked["a"] /\ marked["b"]
    /\ \E i \in 1..Len(depends["a"][candidate["a"]]) :
          LET g == depends["a"][candidate["a"]][i]
          IN Len(g) = 2 /\ Len(Remaining(g)) = 1 /\ Remaining(g)[1].target = "b"

\* a call failed on a group of which no alternative is left
C24_NoneLeft ==
    /\ error = "Can't handle or-dependencies"
    /\ \E p \in Pkgs :
          /\ depReads[p] > 0
          /\ \E i \in 1..Len(depends[p][candidate[p]]) :
                Remaining(depends[p][candidate[p]][i]) = <<>>
          /\ \A i \in 1..Len(depends[p][candidate[p]]) :
                Len(Remaining(depends[p][candidate[p]][i])) <= 1

(***************************************************************************)
(* Properties of the order of marking.                                     *)
(***************************************************************************)
\* C25: _fetch_package calls mark_install on pkg only when every target of
\* pkg_versions has been handled, and then every package the call recursed
\* into is already marked for install; when a dependency of an active call
\* fails (in the call itself before its mark_install, or in a call made from
\* it), every active call is left, its package is not marked, and nothing
\* is marked afterwards.
C25_PostOrder ==
    [][/\ \A p \in DOMAIN markCalls :
             markCalls'[p] # markCalls[p] =>
                 /\ pc = "fetch_package"
                 /\ Head(stack).pkg = p
                 /\ Head(stack).phase = "deps"
                 /\ Head(stack).todo = {}
                 /\ \A d \in Head(stack).recursed : marked[d]
       /\ (~default_solver /\ marked' # marked) =>
             \E p \in DOMAIN markCalls : markCalls'[p] # markCalls[p]
       /\ (pc = "fetch_package" /\ pc' = "error") =>
             /\ marked' = marked
             /\ stack' = <<>>
             /\ \A i \in 1..Len(stack) :
                   (i > 1 \/ markCalls' = markCalls) => ~marked'[stack[i].pkg]
       /\ pc = "error" => marked' = marked]_vars

\* a call that recursed into two packages is about to mark its own, which
\* is not marked yet, and both are marked
C25_Witness ==
    /\ pc = "fetch_package"
    /\ Head(stack).phase = "deps"
    /\ Head(stack).todo = {}
    /\ Cardinality(Head(stack).recursed) = 2
    /\ ~marked[Head(stack).pkg]
    /\ \A d \in Head(stack).recursed : marked[d]

(***************************************************************************)
(* Properties of candidate_versions.                                       *)
(***************************************************************************)
\* C26: for every target of an active call whose intersection is not empty,
\* candidate_versions holds exactly one version of every owning package,
\* and it is the greatest of that package's versions in the intersection
\* under the Debian order, the order check_dep tests restrictions with.
C26_BestByDebianOrder ==
    \A k \in 1..Len(stack) :
        stack[k].phase = "deps" =>
            \A name \in DOMAIN stack[k].pkg_versions :
                LET vs == stack[k].pkg_versions[name]
                    cands == CandidateVersions(vs)
                IN vs # {} =>
                      /\ \A owner \in {x.pkg : x \in vs} :
                            Cardinality({i \in 1..Len(cands) : cands[i].pkg = owner}) = 1
                      /\ \A i \in 1..Len(cands) :
                            /\ cands[i] \in vs
                            /\ \A x \in vs :
                                  x.pkg = cands[i].pkg =>
                                      DebCmp(cands[i].ver, x.ver) >= 0

\* the same, with the order of distutils' LooseVersion in place of Debian's
BestByLooseOrder ==
    \A k \in 1..Len(stack) :
        stack[k].phase = "deps" =>
            \A name \in DOMAIN stack[k].pkg_versions :
                LET vs == stack[k].pkg_versions[name]
                    cands == CandidateVersions(vs)
                IN vs # {} =>
                      /\ \A owner \in {x.pkg : x \in vs} :
                            Cardinality({i \in 1..Len(cands) : cands[i].pkg = owner}) = 1
                      /\ \A i \in 1..Len(cands) :
                            /\ cands[i] \in vs
                            /\ \A x \in vs :
                                  x.pkg = cands[i].pkg =>
                                      LooseCmp(cands[i].ver, x.ver) >= 0

(***************************************************************************)
(* Properties of the default solver.                                       *)
(***************************************************************************)
ConflictMsg == "Could not install package due to version conflicts"

\* fetch handles a name that has a qualifying version, in this step
HandlesName ==
    /\ AtName
    /\ Len(lookedUp') = Len(lookedUp) + 1
    /\ Qualifying(Current.name, Current.clauses) # {}

\* C27: with default_solver set, fetch never calls _fetch_package; for each
\* requested name it sets the version found as the candidate and calls the
\* cache's own mark_install, and when mark_install returns it raises
\* "Could not install ... due to version conflicts" exactly when the package
\* is then kept (not marked for install) and not installed.
C27_DefaultSolver ==
    [][default_solver =>
          /\ fpCalls' = fpCalls
          /\ stack' = <<>>
          /\ pc' # "fetch_package"
          /\ HandlesName =>
                LET n == Current.name
                IN /\ candidate'[n] = FoundVersion(n, Current.clauses)
                   /\ error' # "SystemError" =>
                         ((error' = ConflictMsg /\ pc' = "error")
                            <=> (~marked'[n] /\ installedVer[n] = NoVer))
                   /\ error' \notin {"SystemError", ConflictMsg} =>
                         (pc' = "names" /\ idx' = idx + 1 /\ error' = "")]_vars

\* the default solver kept an installed package and fetch went on to the end
C27_Witness ==
    /\ default_solver
    /\ pc = "done"
    /\ error = ""
    /\ \E i \in 1..Len(lookedUp) :
          /\ ~marked[lookedUp[i]]
          /\ installedVer[lookedUp[i]] # NoVer

\* the default solver kept a package that is not installed
C27_Conflict ==
    /\ default_solver
    /\ error = ConflictMsg
    /\ ~marked[lookedUp[Len(lookedUp)]]
    /\ installedVer[lookedUp[Len(lookedUp)]] = NoVer

(***************************************************************************)
(* Properties of the backtrace.                                            *)
(***************************************************************************)
NoDuplicates(backtrace) ==
    \A i, j \in 1..Len(backtrace) : backtrace[i] = backtrace[j] => i = j

\* the packages of the calls that are active under the k-th call of the
\* stack, the nearest caller first
Callers(k) == [i \in 1..(Len(stack) - k) |-> stack[k + i].pkg]

\* C29: in every active call _fetch_package(pkg, backtrace) the backtrace
\* holds no package twice, does not hold pkg, and is the chain of the
\* callers of the call.
C29_BacktraceDistinctAncestors ==
    \A k \in 1..Len(stack) :
        /\ NoDuplicates(stack[k].backtrace)
        /\ \A i \in 1..Len(stack[k].backtrace) : stack[k].backtrace[i] # stack[k].pkg
        /\ stack[k].backtrace = Callers(k)

\* the part that holds: the backtrace is the chain of the callers
BacktraceIsCallers ==
    \A k \in 1..Len(stack) : stack[k].backtrace = Callers(k)

(***************************************************************************)
(* Properties of make_output.                                              *)
(***************************************************************************)
\* the places in outputs of the calls of tar_out(rootfs_path)
RootfsTarCalls ==
    {i \in 1..Len(outputs) : outputs[i].call = "tar_out" /\ outputs[i].path = "rootfs"}

\* C28: make_output calls tar_out(rootfs_path) at most twice; the second
\* call comes only, and always, right after the first has failed; after a
\* call that succeeded make_output goes on (the installer image is built if
\* one is asked for, the rootfs artifact is recorded if the tar archive is
\* asked for and nothing fails later); when the second call fails,
\* make_output and main end with its OpxrootfsError, no installer image is
\* built and no rootfs artifact is recorded.
C28_TarRetriedOnce ==
    LET at == RootfsTarCalls
        output_format == blueprint.output_format
    IN /\ Cardinality(at) <= 2
       /\ \A i \in at :
            LET second == \E j \in at : j < i
            IN /\ second => (i - 1 \in at /\ ~outputs[i - 1].ok)
               /\ (~second /\ ~outputs[i].ok) => i + 1 \in at
               /\ outputs[i].ok =>
                     /\ raised \in {"", "CalledProcessError"}
                     /\ (output_format.ONIE_image \/ output_format.ONIE_pkg) =>
                           \E k \in (i + 1)..Len(outputs) :
                               outputs[k].call = "onie-mk-opx.sh"
                     /\ (output_format.tar_archive /\ raised = "") =>
                           \E k \in (i + 1)..Len(outputs) :
                               outputs[k] = Out("add_artifact", "rootfs", TRUE)
               /\ (second /\ ~outputs[i].ok) =>
                     /\ i = Len(outputs)
                     /\ step = "raised"
                     /\ raised = "OpxrootfsError"
                     /\ log[Len(log)] = Call("make_output", 0, FALSE)
                     /\ \A k \in 1..Len(outputs) :
                           /\ outputs[k].call # "onie-mk-opx.sh"
                           /\ outputs[k] # Out("add_artifact", "rootfs", TRUE)

\* the first tar_out failed, the second succeeded, and the image and the
\* rootfs archive were made and recorded
C28_Witness ==
    /\ step = "done"
    /\ \E i \in RootfsTarCalls :
          /\ ~outputs[i].ok
          /\ outputs[i + 1] = Out("tar_out", "rootfs", TRUE)
    /\ \E k \in 1..Len(outputs) : outputs[k] = Out("add_artifact", "image", TRUE)
    /\ \E k \in 1..Len(outputs) : outputs[k] = Out("add_artifact", "rootfs", TRUE)

\* both calls of tar_out failed
C28_BothFailed ==
    /\ step = "raised"
    /\ Cardinality(RootfsTarCalls) = 2
    /\ \A i \in RootfsTarCalls : ~outputs[i].ok

(***************************************************************************)
(* Properties of the OpxPackages session.                                  *)
(***************************************************************************)
\* add_packages has left the with statement of a package set in this step:
\* fetch returned or raised, and __exit__ has called close
SessionClosed ==
    /\ step = "add_packages"
    /\ Len(log') = Len(log) + 1
    /\ log'[Len(log')].call = "fetch"

\* C30: every package set is fetched in a session of its own that is closed
\* whether fetch returns or raises; when sources.list existed before the
\* session, it has after the close the lines it had before (they were kept
\* in sources.list.save), whatever sessions went before.
C30_SourcesRestored ==
    [][SessionClosed =>
          /\ log'[Len(log')].set = setsDone + 1
          /\ sources_list # None =>
                /\ sources_list' = sources_list
                /\ sources_save' = sources_list]_vars

\* the fetch of the second package set raised after the first returned:
\* sources.list is the one the rootfs came with, and sources.list.save
\* its copy
C30_Witness ==
    /\ raised = "OpxPackagesError"
    /\ \E i \in 1..Len(log) : log[i] = Call("fetch", 1, TRUE)
    /\ log[Len(log)] = Call("fetch", 2, FALSE)
    /\ sources_list = Some(DistroSources)
    /\ sources_save = Some(DistroSources)

=============================================================================
